---- MODULE Spec2Model ----
(***************************************************************************)
(* Verification model of auto-music-gen: the result normalizer            *)
(* (models/results.py), the poll loop (tui/progress.py), the two clients  *)
(* (client/local.py, client/runpod.py), the wizard (tui/app.py), the      *)
(* request model (models/params.py), the VRAM estimate (gpu.py) and the    *)
(* configuration loader (config.py) and the server launcher                *)
(* (server/launcher.py).                                                   *)
(*                                                                         *)
(* One module, several specifications over the same variables:            *)
(*   NormSpec     TaskResult.from_api_response applied to bounded items    *)
(*   PollSpec     poll_with_progress against a scripted client             *)
(*   ClientSpec   arbitrary call sequences on a LocalClient / RunPodClient *)
(*   DownloadSpec download_audio calls into directories of bounded depth   *)
(*   WizardSpec   run(): setup, generation cycles, cleanup                 *)
(*   RequestSpec  GenerationRequest construction and to_api_dict           *)
(*   VramSpec     estimate_vram_mb on pairs of inputs                      *)
(*   ConfigSpec   load_config in bounded environments                      *)
(*   LauncherSpec ServerLauncher: launch, shutdown, wait_until_ready       *)
(* Each specification leaves the variables of the others at their idle     *)
(* values.                                                                 *)
(***************************************************************************)
EXTENDS Integers, Sequences, FiniteSets, TLC

VARIABLES
    \* ---- request model (GenerationRequest) ----
    rq,             \* a construction: the keyword arguments, the outcome, the payload
                    \* of to_api_dict and the request rebuilt from that payload
    \* ---- VRAM estimate (estimate_vram_mb) ----
    est,            \* two calls: their durations and batch sizes, and the results
    \* ---- configuration (load_config) ----
    cfg,            \* a call: os.environ before and after, the files, the secrets returned
    \* ---- server launcher (ServerLauncher) ----
    ln,             \* the launcher object, its subprocess, and a wait_until_ready loop
    \* ---- result normalizer ----
    item,           \* the raw poll-response item handed to from_api_response
    normOut,        \* its outcome: pending, a TaskResult, or a raised exception
    \* ---- poll loop (poll_with_progress) ----
    ppc,            \* position in the loop: idle/check/fetch/sleep/returned/timeout/raised
    now,            \* time.monotonic(), whole seconds
    start,          \* start = time.monotonic() at loop entry
    timeout,        \* the timeout argument
    script,         \* the backend's course for the polled task: if it ends, n running
                    \* answers and then the status final; otherwise running forever
    runsLeft,       \* running answers still to come
    elapsed,        \* the local variable elapsed of the current iteration
    pollResult,     \* status of the TaskResult the loop returned (0 until it returns)
    pollCalls,      \* number of poll_result calls the fake client has seen (PollSpec harness)
    sleeps,         \* number of time.sleep(POLL_INTERVAL) calls seen (PollSpec harness)
    checksPassed,   \* number of deadline checks that found elapsed <= timeout (PollSpec harness)
    \* ---- client object (LocalClient / RunPodClient) ----
    kind,           \* "none", "local" or "runpod"
    pod_id,         \* RunPodClient._pod_id (None = 0)
    base_url,       \* RunPodClient._base_url (NoUrl when unset)
    http,           \* the httpx.Client handle: "none", "open", "closed"
    created,        \* number of pods the provider created (ids 1..created)
    terminateCalls, \* sequence of pod ids passed to runpod.terminate_pod
    calls,          \* number of client methods called (ClientSpec harness)
    lastCall,       \* the last client method called, its input and how it ended
    httpCount,      \* number of HTTP requests the transport has seen (ClientSpec harness)
    disk,           \* the local file system under the output root: which directories
                    \* of the chain exist, and the file written in each
    \* ---- wizard (run) ----
    wpc,            \* position in run()
    w               \* the remaining wizard state, a record (see WizInit)

normVars   == <<item, normOut>>
pureVars   == <<rq, est, cfg, ln>>
dataVars   == <<normVars, pureVars>>
loopVars   == <<ppc, now, start, timeout, script, runsLeft, elapsed, pollResult>>
countVars  == <<pollCalls, sleeps, checksPassed>>
pollVars   == <<loopVars, countVars>>
clientVars == <<kind, pod_id, base_url, http, created, terminateCalls>>
callVars   == <<calls, lastCall, httpCount, disk>>
wizVars    == <<wpc, w>>
vars       == <<dataVars, pollVars, clientVars, callVars, wizVars>>

(***************************************************************************)
(* Bounds of the model.                                                    *)
(***************************************************************************)
MaxEntries == 2     \* longest decoded result sequence
MaxStatus  == 3     \* status codes 0..MaxStatus are tried (3 is outside the enumeration)
MaxTimeout == 6     \* PollSpec tries the timeouts 0..MaxTimeout (seconds)
MaxN       == 3     \* most running answers of a task that ends
MaxPollDur == 2     \* a poll_result call takes 0..MaxPollDur seconds
MaxClock   == 3     \* PollSpec enters the loop at a clock reading in 0..MaxClock
MaxPods    == 2     \* pods the provider creates in one run
MaxObs     == 2     \* provider observations (or health probes) one wait loop makes
MaxCalls   == 5     \* client method calls in one ClientSpec run
MaxCycles  == 2     \* generation cycles of one wizard session
MaxAudios  == 2     \* most AudioResult entries of a terminal result
MaxDepth   == 2     \* nesting depth of a download's parent directory below the output root
MaxChunks  == 2     \* chunks of one streamed download
MaxDownloads == 2   \* download_audio calls in one DownloadSpec run
MaxBatch   == 4     \* estimate_vram_mb is tried with the batch sizes 1..2*MaxBatch
MaxWait    == 5     \* wait_until_ready is called with a timeout in 0..MaxWait
MaxProbeDur == 1    \* a health probe of the launcher takes 0..MaxProbeDur seconds
MaxLaunches == 2    \* launch() calls on one launcher
MaxLifecycle == 4   \* launch and shutdown calls on one launcher
MaxLines   == 2     \* KEY=VALUE lines of the .env file
MaxVaried  == 1     \* keyword arguments by which a construction differs from none / all passed

(***************************************************************************)
(* JSON values.  Every value is a record of the same shape so that any two *)
(* values can be compared: t is the Python type, n the int payload, s the  *)
(* str payload.                                                            *)
(***************************************************************************)
Absent      == [t |-> "absent", n |-> 0, s |-> ""]    \* key not in the mapping
Null        == [t |-> "null",   n |-> 0, s |-> ""]    \* None
IntV(k)     == [t |-> "int",    n |-> k, s |-> ""]
StrV(x)     == [t |-> "str",    n |-> 0, s |-> x]
DictV       == [t |-> "dict",   n |-> 0, s |-> ""]    \* some mapping (opaque)
ListV       == [t |-> "list",   n |-> 0, s |-> ""]    \* a sequence, elements kept apart

\* bool(v) of Python
Truthy(v) ==
    CASE v.t = "absent" -> FALSE
      [] v.t = "null"   -> FALSE
      [] v.t = "int"    -> v.n # 0
      [] v.t = "str"    -> v.s # ""
      [] OTHER          -> TRUE

\* dict.get(key, default): the value when the key is present (None included)
Get(v, default) == IF v.t = "absent" THEN default ELSE v

\* An entry of the result sequence: a mapping with optional keys, or not a mapping.
DictEntry(f, st, er) == [isDict |-> TRUE,  file |-> f, status |-> st, error |-> er]
NonDictEntry         == [isDict |-> FALSE, file |-> Absent, status |-> Absent, error |-> Absent]

(***************************************************************************)
(* Result normalizer: TaskResult.from_api_response (models/results.py).    *)
(***************************************************************************)
\* A raw item: the four keys the normalizer reads, each absent or a value;
\* resultList holds the elements when result is an already-decoded list.
Item(tid, st, pt, res, lst) ==
    [task_id |-> tid, status |-> st, progress_text |-> pt, result |-> res, resultList |-> lst]

\* json.loads on the texts the model uses: ok = FALSE is JSONDecodeError,
\* otherwise val is the decoded value and list its elements when it is a list.
Decoded(v, l) == [ok |-> TRUE, val |-> v, list |-> l]
JsonLoads(text) ==
    CASE text = "[]"       -> Decoded(ListV, <<>>)
      [] text = "null"     -> Decoded(Null, <<>>)
      [] text = "5"        -> Decoded(IntV(5), <<>>)
      [] text = "{}"       -> Decoded(DictV, <<>>)
      [] text = "\"ab\""   -> Decoded(StrV("ab"), <<>>)
      [] text = "[{\"file\":\"x\",\"status\":1}]"
                           -> Decoded(ListV, <<DictEntry(StrV("x"), IntV(1), Absent)>>)
      [] text = "[{\"file\":\"x\",\"status\":2,\"error\":\"OOM\"}]"
                           -> Decoded(ListV, <<DictEntry(StrV("x"), IntV(2), StrV("OOM"))>>)
      [] text = "[1,{\"file\":\"y\"}]"
                           -> Decoded(ListV, <<NonDictEntry, DictEntry(StrV("y"), Absent, Absent)>>)
      [] OTHER             -> [ok |-> FALSE, val |-> Null, list |-> <<>>]

JsonTexts == {"", "not-json", "[]", "null", "5", "{}", "\"ab\"",
              "[{\"file\":\"x\",\"status\":1}]",
              "[{\"file\":\"x\",\"status\":2,\"error\":\"OOM\"}]",
              "[1,{\"file\":\"y\"}]"}

\* result_data of lines 61-68: the decoded value and, for a list, its elements.
ResultData(it) ==
    LET result_raw == Get(it.result, StrV("[]"))
    IN  IF result_raw.t = "str"
        THEN LET d == JsonLoads(result_raw.s)
             IN  IF d.ok THEN [val |-> d.val, list |-> d.list]
                         ELSE [val |-> ListV, list |-> <<>>]
        ELSE IF result_raw.t = "list"
             THEN [val |-> ListV, list |-> it.resultList]
             ELSE [val |-> ListV, list |-> <<>>]

\* "for entry in result_data": an int or None is not iterable (TypeError);
\* a str yields characters and a dict yields keys, none of them a mapping.
Iterable(v) == v.t \in {"list", "str", "dict"}

\* pydantic field validation of the model classes (str and int fields)
IsStr(v) == v.t = "str"
IsInt(v) == v.t = "int"
IsOptStr(v) == v.t \in {"str", "null"}

\* AudioResult(file=entry.get("file", ""), status=entry.get("status", status), ...)
AudioArgs(entry, status) ==
    [file |-> Get(entry.file, StrV("")), status |-> Get(entry.status, status)]
AudioValid(a) == IsStr(a.file) /\ IsInt(a.status)
AudioResult(a) == [file |-> a.file.s, status |-> a.status.n]

SelectDicts(list) == SelectSeq(list, LAMBDA e : e.isDict)

\* error of lines 71-75: the error of the last mapping entry whose error is truthy
RECURSIVE LastError(_)
LastError(list) ==
    IF list = <<>> THEN Null
    ELSE LET e == list[Len(list)]
         IN  IF e.isDict /\ Truthy(e.error) THEN e.error
             ELSE LastError(SubSeq(list, 1, Len(list) - 1))

Returned(tr) == [state |-> "returned", exc |-> "", tr |-> tr]
NoTaskResult == [task_id |-> "", status |-> 0, progress_text |-> "",
                 audios |-> <<>>, error |-> Null]
Raised(e)    == [state |-> "raised", exc |-> e, tr |-> NoTaskResult]
Pending      == [state |-> "pending", exc |-> "", tr |-> NoTaskResult]

from_api_response(it) ==
    IF it.task_id.t = "absent" THEN Raised("KeyError")
    ELSE
    LET task_id       == it.task_id
        status        == Get(it.status, IntV(0))
        pt            == Get(it.progress_text, StrV(""))
        progress_text == IF Truthy(pt) THEN pt ELSE StrV("")
        rd            == ResultData(it)
        dicts         == SelectDicts(rd.list)
        args          == [i \in 1..Len(dicts) |-> AudioArgs(dicts[i], status)]
        error         == LastError(rd.list)
    IN  IF ~Iterable(rd.val) THEN Raised("TypeError")
        ELSE IF \E i \in 1..Len(args) : ~AudioValid(args[i]) THEN Raised("ValidationError")
        ELSE IF ~(IsStr(task_id) /\ IsInt(status) /\ IsStr(progress_text) /\ IsOptStr(error))
             THEN Raised("ValidationError")
        ELSE Returned([task_id       |-> task_id.s,
                       status        |-> status.n,
                       progress_text |-> progress_text.s,
                       audios        |-> [i \in 1..Len(args) |-> AudioResult(args[i])],
                       error         |-> error])

\* TaskResult.is_running / is_succeeded / is_failed
is_running_wrongCode(status) == status = 1
is_running(status)   == status = 0
is_succeeded(status) == status = 1
is_failed(status)    == status = 2

(***************************************************************************)
(* Inputs of the normalizer.                                               *)
(***************************************************************************)
EntrySet ==
    {NonDictEntry} \cup
    { DictEntry(f, st, er) : f  \in {Absent, Null, StrV("a.mp3")},
                             st \in {Absent, IntV(2)},
                             er \in {Absent, StrV("OOM"), StrV("late")} }

RECURSIVE SeqsUpTo(_, _)
SeqsUpTo(S, n) ==
    IF n = 0 THEN {<<>>}
    ELSE LET shorter == SeqsUpTo(S, n - 1)
         IN  shorter \cup { Append(q, x) : q \in shorter, x \in S }

ItemSet ==
    LET tids   == {Absent, Null, StrV("t1")}
        stats  == {Absent, Null, StrV("done")} \cup { IntV(k) : k \in 0..MaxStatus }
        texts  == {Absent, Null, StrV("step 3/8"), IntV(7)}
        scalar == {Absent, Null, IntV(5), DictV} \cup { StrV(x) : x \in JsonTexts }
    IN  { Item(tid, st, pt, res, <<>>) :
              tid \in tids, st \in stats, pt \in texts, res \in scalar }
        \cup
        { Item(tid, st, pt, ListV, lst) :
              tid \in {Absent, StrV("t1")}, st \in {Absent, IntV(1), IntV(2)},
              pt \in {Absent, StrV("step 3/8")},
              lst \in SeqsUpTo(EntrySet, MaxEntries) }

NoItem == Item(Absent, Absent, Absent, Absent, <<>>)

(***************************************************************************)
(* Poll loop: poll_with_progress (tui/progress.py).                        *)
(***************************************************************************)
POLL_INTERVAL   == 2
DEFAULT_TIMEOUT == 1800

\* the deadline test of line 55
Exceeded_atDeadline(e, t) == e >= t
Exceeded(e, t) == e > t

\* What the polled backend answers next: running while runs are left or the
\* task never ends, then final.
ClientAnswer == IF script.ends /\ runsLeft = 0 THEN script.final ELSE 0

\* line 50: start = time.monotonic(), then the loop is at its first check
PollEnterWith(t) ==
    /\ ppc = "idle"
    /\ ppc' = "check"
    /\ start' = now
    /\ timeout' = t
    /\ elapsed' = 0
    /\ pollResult' = 0
    /\ UNCHANGED <<now, script, runsLeft>>

\* lines 54-58: elapsed = time.monotonic() - start; raise TimeoutError if exceeded
PollCheckCore ==
    /\ ppc = "check"
    /\ elapsed' = now - start
    /\ ppc' = IF Exceeded(now - start, timeout) THEN "timeout" ELSE "fetch"
    /\ UNCHANGED <<now, start, timeout, script, runsLeft, pollResult>>

\* lines 60-63: result = client.poll_result(task_id); return it unless running.
\* The call takes one of durs seconds.
PollFetchTaking(durs) ==
    /\ ppc = "fetch"
    /\ \E d \in durs : now' = now + d
    /\ runsLeft' = IF runsLeft > 0 THEN runsLeft - 1 ELSE runsLeft
    /\ IF is_running(ClientAnswer)
       THEN ppc' = "sleep" /\ UNCHANGED pollResult
       ELSE ppc' = "returned" /\ pollResult' = ClientAnswer
    /\ UNCHANGED <<start, timeout, script, elapsed>>

PollFetchCore == PollFetchTaking(0..MaxPollDur)

\* line 60 when poll_result raises (a transport error): the loop is left by it
PollFetchRaisesTaking(durs) ==
    /\ ppc = "fetch"
    /\ \E d \in durs : now' = now + d
    /\ ppc' = "raised"
    /\ UNCHANGED <<start, timeout, script, runsLeft, elapsed, pollResult>>

\* lines 65-73: display update (no state), then time.sleep(POLL_INTERVAL)
PollSleepCore_shortSleep ==
    /\ ppc = "sleep"
    /\ now' = now + 1
    /\ ppc' = "check"
    /\ UNCHANGED <<start, timeout, script, runsLeft, elapsed, pollResult>>
PollSleepCore ==
    /\ ppc = "sleep"
    /\ now' = now + POLL_INTERVAL
    /\ ppc' = "check"
    /\ UNCHANGED <<start, timeout, script, runsLeft, elapsed, pollResult>>

NeverEnds == [ends |-> FALSE, n |-> 0, final |-> 1]
Scripts   == [ends : {TRUE}, n : 0..MaxN, final : 1..MaxStatus] \cup {NeverEnds}
NoScript  == [ends |-> TRUE, n |-> 0, final |-> 1]

(***************************************************************************)
(* Clients: LocalClient (client/local.py), RunPodClient (client/runpod.py).*)
(***************************************************************************)
\* _base_url: None, or the URL derived from a pod id (runpod.py:85).  A
\* LocalClient holds the configured URL inside its httpx.Client.
NoUrl     == [set |-> FALSE, scheme |-> "", pod |-> 0, port |-> 0]
PodUrl(p) == [set |-> TRUE, scheme |-> "https", pod |-> p, port |-> 8001]
LocalUrl  == [set |-> TRUE, scheme |-> "http", pod |-> 0, port |-> 8001]

\* How the transport answers GET /health.
Probes == {"200", "503", "refused", "timeout"}
\* How the transport answers a submit, poll or download request.
Responses == {"ok", "http_error", "connect_error"}

\* "if not self._base_url" of RunPodClient (lines 114, 127, 144, 159)
EndpointUnresolved_byPodId(k, url, pod) == k = "runpod" /\ pod = 0
EndpointUnresolved(k, url, pod) == k = "runpod" /\ ~url.set

\* health_check: "True", "False", or the exception that escapes.
\* LocalClient catches httpx.ConnectError only; RunPodClient catches
\* httpx.ConnectError and httpx.TimeoutException.
health_check(k, url, pod, probe) ==
    IF EndpointUnresolved(k, url, pod) THEN "False"
    ELSE CASE probe = "200"     -> "True"
           [] probe = "refused" -> "False"
           [] probe = "timeout" -> IF k = "runpod" THEN "False" ELSE "TimeoutException"
           [] OTHER             -> "False"

\* submit_task / poll_result / download_audio: how the call ends.
\* RuntimeError is the precondition error; HTTPStatusError is what
\* raise_for_status raises; ConnectError escapes from the request itself.
request_outcome(k, url, pod, resp) ==
    IF EndpointUnresolved(k, url, pod) THEN "RuntimeError"
    ELSE CASE resp = "ok"         -> "ok"
           [] resp = "http_error" -> "HTTPStatusError"
           [] OTHER               -> "ConnectError"

\* whether the call reaches the transport
Sends(k, url, pod) == ~EndpointUnresolved(k, url, pod)

\* The directories below the output root form a chain 0 (the root) .. MaxDepth;
\* those up to disk.depth exist.  files[d] is the file local_path names when
\* its parent is directory d.
NoFile == [exists |-> FALSE, data |-> <<>>]
File(chunks) == [exists |-> TRUE, data |-> chunks]
NoDisk == [depth |-> 0, files |-> [d \in 0..MaxDepth |-> NoFile]]
\* the chunks resp.iter_bytes() yields: chunk i carries content i
ChunkSeqs == { [i \in 1..n |-> i] : n \in 0..MaxChunks }

\* whether download_audio calls local_path.parent.mkdir(parents=True,
\* exist_ok=True) before open(): runpod.py:164 does, local.py:67-68 does not
MakesParents(k) == k = "runpod"

\* download_audio (local.py:60-71, runpod.py:154-168) to a path whose parent
\* is directory dir: how the call ends.  open(local_path, "wb") raises
\* FileNotFoundError when the parent directory does not exist.
download_audio(k, url, pod, resp, dir, dsk) ==
    IF request_outcome(k, url, pod, resp) # "ok" THEN request_outcome(k, url, pod, resp)
    ELSE IF MakesParents(k) \/ dir <= dsk.depth THEN "ok"
    ELSE "FileNotFoundError"

\* the file system after the call: on success the missing parents exist and
\* the file holds the chunks in the order received (open "wb" truncates)
DownloadCore(dir, resp, chunks) ==
    disk' = IF download_audio(kind, base_url, pod_id, resp, dir, disk) = "ok"
            THEN [depth |-> IF dir > disk.depth THEN dir ELSE disk.depth,
                  files |-> [disk.files EXCEPT ![dir] = File(chunks)]]
            ELSE disk

\* create_pod (lines 50-68): the provider creates pod created+1
CreatePodCore ==
    /\ created < MaxPods
    /\ created' = created + 1
    /\ pod_id' = created + 1
    /\ UNCHANGED <<kind, base_url, http, terminateCalls>>

\* What runpod.get_pod reports: desiredStatus, and runtime (null or a mapping
\* with uptimeInSeconds).
PodObs == [desiredStatus : {"RUNNING", "CREATED"}, runtime : {Absent, Null, IntV(0), IntV(5)}]
\* runtime = pod.get("runtime") or {};  runtime.get("uptimeInSeconds", 0)
Uptime(o) == IF o.runtime.t = "int" THEN o.runtime.n ELSE 0
\* line 84
Ready_zeroUptime(o) == o.desiredStatus = "RUNNING" /\ Uptime(o) >= 0
Ready(o)  == o.desiredStatus = "RUNNING" /\ Uptime(o) > 0

\* index of the first ready observation, 0 when there is none
RECURSIVE FirstReady(_, _)
FirstReady(obs, i) ==
    IF i > Len(obs) THEN 0
    ELSE IF Ready(obs[i]) THEN i ELSE FirstReady(obs, i + 1)

\* wait_for_pod (lines 70-90), with the observations the loop makes before
\* its deadline: "RuntimeError", "TimeoutError" or "ok".
wait_for_pod(pod, obs) ==
    IF pod = 0 THEN "RuntimeError"
    ELSE IF FirstReady(obs, 1) = 0 THEN "TimeoutError" ELSE "ok"

\* the runpod.get_pod calls wait_for_pod makes: none without a pod (line 76
\* raises first), otherwise one per loop round up to the first ready answer
PodQueries(pod, obs) ==
    IF pod = 0 THEN <<>>
    ELSE IF FirstReady(obs, 1) = 0 THEN obs ELSE SubSeq(obs, 1, FirstReady(obs, 1))

WaitForPodCore(obs) ==
    /\ base_url' = IF wait_for_pod(pod_id, obs) = "ok" THEN PodUrl(pod_id) ELSE base_url
    /\ UNCHANGED <<kind, pod_id, http, created, terminateCalls>>

\* wait_for_server (lines 92-99), with the probes made before its deadline
wait_for_server(k, url, pod, probes) ==
    \E i \in 1..Len(probes) : health_check(k, url, pod, probes[i]) = "True"

\* destroy_pod (lines 101-106)
DestroyPodCore_keepsId ==
    /\ IF pod_id # 0
       THEN /\ terminateCalls' = Append(terminateCalls, pod_id)
            /\ base_url' = NoUrl
            /\ UNCHANGED pod_id
       ELSE UNCHANGED <<terminateCalls, pod_id, base_url>>
    /\ UNCHANGED <<kind, http, created>>
DestroyPodCore ==
    /\ IF pod_id # 0
       THEN /\ terminateCalls' = Append(terminateCalls, pod_id)
            /\ pod_id' = 0
            /\ base_url' = NoUrl
       ELSE UNCHANGED <<terminateCalls, pod_id, base_url>>
    /\ UNCHANGED <<kind, http, created>>

\* close (local.py:85, runpod.py:180)
CloseCore ==
    /\ http' = "closed"
    /\ UNCHANGED <<kind, pod_id, base_url, created, terminateCalls>>

(***************************************************************************)
(* Wizard: run, _setup_local, _setup_runpod, _generation_wizard            *)
(* (tui/app.py).                                                           *)
(***************************************************************************)
MAX_LYRICS_LENGTH == 4096

\* The GenerationRequest built in a cycle, as far as the wizard decides it:
\* whether its lyrics are the instrumental marker, and its audio format.
NoRequest == [built |-> FALSE, instrumental |-> FALSE, audio_format |-> ""]
Request(len, fmt) == [built |-> TRUE, instrumental |-> (len = 14), audio_format |-> fmt]

\* validate_lyrics (params.py:76-83)
validate_lyrics(len) == len <= MAX_LYRICS_LENGTH

\* get_lyrics (prompts.py:27-64): the 14 characters of "[Instrumental]", or
\* the text of a file, here one character longer than the bound
LyricsLengths == {14, MAX_LYRICS_LENGTH + 1}
\* get_settings (prompts.py:102-140): the default format or a customised one
SettingsFormats(default) == {default, "wav"}
\* config.generation.audio_format (config.py:34 is the default, "mp3")
ConfigFormats == {"mp3", "flac"}

\* AudioResult.file values of a terminal result ("" is an entry without file)
Files == {"", "/out/s.mp3"}

\* save_metadata(request, result, output_dir), line 235: the request, the
\* status of the result and the downloads done before the call
NoMeta == [request |-> NoRequest, result |-> 0, after |-> <<>>]

\* State of run() besides the client object and the poll loop.
NoWizard ==
    [ mode         |-> "none",    \* get_execution_mode()
      config_fmt   |-> "mp3",     \* config.generation.audio_format
      client       |-> FALSE,     \* run's variable client is not None
      launcher     |-> FALSE,     \* run's variable launcher is not None
      proc         |-> "none",    \* the subprocess of ServerLauncher.launch
      stopAnswer   |-> "none",    \* answer to "Stop the ACE-Step server?"
      fatalWait    |-> "none",    \* which wait failed fatally: "pod", "server", "local"
      exit         |-> "none",    \* how run() ended: "return", "SystemExit", or an exception
      cycle        |-> 0,         \* _generation_wizard invocations so far
      request      |-> NoRequest, \* the request of this cycle
      raised       |-> "none",    \* exception raised in this cycle
      shown        |-> "none",    \* title of the show_error of this cycle
      task         |-> 0,         \* task id of this cycle's submission (0 = none)
      result       |-> 0,         \* status of the result poll_with_progress returned
      submitted    |-> 0,         \* tasks submitted so far (ids 1..submitted)
      inflight     |-> {},        \* submitted tasks the backend has not finished
      audios       |-> <<>>,      \* result.audios of the terminal result
      next         |-> 1,         \* position of the download loop in audios
      downloads    |-> <<>>,      \* downloads done in this cycle
      saved        |-> FALSE,     \* save_metadata and show_success done in this cycle
      sent         |-> NoRequest, \* the request passed to submit_task in this cycle
      polled       |-> 0,         \* the task id passed to poll_with_progress
      meta         |-> NoMeta ]   \* the arguments of save_metadata

\* An exception (or SystemExit, or a return) leaves run() through its finally.
Leave(rec, how) == [rec EXCEPT !.exit = how]

\* run, line 35: mode = get_execution_mode()
W_ChooseMode ==
    /\ wpc = "mode"
    /\ \E m \in {"local", "runpod"} :
          /\ w' = [w EXCEPT !.mode = m]
          /\ wpc' = IF m = "local" THEN "sl_construct" ELSE "sr_confirm"
    /\ UNCHANGED <<dataVars, pollVars, clientVars, callVars>>

\* _setup_local, lines 68-70: client = LocalClient(...)
W_LocalConstruct ==
    /\ wpc = "sl_construct"
    /\ kind' = "local" /\ http' = "open" /\ base_url' = LocalUrl
    /\ wpc' = "sl_health"
    /\ UNCHANGED <<w, pod_id, created, terminateCalls, dataVars, pollVars, callVars>>

\* _setup_local, lines 72-100: if not client.health_check(): resolve the
\* install dir and ask whether to launch; an exception of health_check
\* escapes _setup_local before run's client is assigned.
W_LocalHealth ==
    /\ wpc = "sl_health"
    /\ \E probe \in Probes :
          LET r == health_check(kind, base_url, pod_id, probe)
          IN  CASE r = "True" ->
                     /\ w' = [w EXCEPT !.client = TRUE]
                     /\ wpc' = "connect"
                [] r = "False" ->
                     \E found \in BOOLEAN, confirm \in BOOLEAN :
                        IF found /\ confirm
                        THEN \* launcher.launch(), lines 78-81
                             /\ w' = [w EXCEPT !.proc = "running"]
                             /\ wpc' = "sl_wait"
                        ELSE \* return client, None, base_url
                             /\ w' = [w EXCEPT !.client = TRUE]
                             /\ wpc' = "connect"
                [] OTHER ->
                     /\ w' = Leave(w, r)
                     /\ wpc' = "finally"
    /\ UNCHANGED <<dataVars, pollVars, clientVars, callVars>>

\* _setup_local, lines 84-90: launcher.wait_until_ready(base_url); on False
\* show_error("Server Timeout", ...) and raise SystemExit(1)
W_LocalWait ==
    /\ wpc = "sl_wait"
    /\ \E ready \in BOOLEAN :
          IF ready
          THEN /\ w' = [w EXCEPT !.client = TRUE, !.launcher = TRUE]
               /\ wpc' = "connect"
          ELSE /\ w' = Leave([w EXCEPT !.shown = "Server Timeout", !.fatalWait = "local"],
                             "SystemExit")
               /\ wpc' = "finally"
    /\ UNCHANGED <<dataVars, pollVars, clientVars, callVars>>

\* _setup_runpod, lines 154-162: confirm_action("Proceed with RunPod?"), then
\* rp_client = RunPodClient(...)
W_RunpodConfirm ==
    /\ wpc = "sr_confirm"
    /\ \E proceed \in BOOLEAN :
          IF proceed
          THEN /\ kind' = "runpod" /\ http' = "open" /\ base_url' = NoUrl
               /\ wpc' = "sr_create"
               /\ UNCHANGED w
          ELSE /\ w' = Leave(w, "SystemExit")
               /\ wpc' = "finally"
               /\ UNCHANGED <<kind, http, base_url>>
    /\ UNCHANGED <<pod_id, created, terminateCalls, dataVars, pollVars, callVars>>

\* _setup_runpod, line 165: rp_client.create_pod()
W_CreatePod ==
    /\ wpc = "sr_create"
    /\ CreatePodCore
    /\ wpc' = "sr_waitpod"
    /\ UNCHANGED <<w, dataVars, pollVars, callVars>>

\* _setup_runpod, line 168: base_url = rp_client.wait_for_pod(); its
\* TimeoutError is not caught in _setup_runpod nor in run
W_WaitForPod ==
    /\ wpc = "sr_waitpod"
    /\ \E obs \in SeqsUpTo(PodObs, MaxObs) \ {<<>>} :
          /\ WaitForPodCore(obs)
          /\ IF wait_for_pod(pod_id, obs) = "ok"
             THEN wpc' = "sr_waitserver" /\ UNCHANGED w
             ELSE /\ w' = Leave([w EXCEPT !.fatalWait = "pod"], wait_for_pod(pod_id, obs))
                  /\ wpc' = "finally"
    /\ UNCHANGED <<dataVars, pollVars, callVars>>

\* _setup_runpod, lines 171-179: if not rp_client.wait_for_server():
\* show_error, rp_client.destroy_pod(), raise SystemExit(1); else return
W_WaitForServer ==
    /\ wpc = "sr_waitserver"
    /\ \E probes \in SeqsUpTo(Probes, MaxObs) \ {<<>>} :
          IF wait_for_server(kind, base_url, pod_id, probes)
          THEN /\ w' = [w EXCEPT !.client = TRUE]
               /\ wpc' = "connect"
               /\ UNCHANGED clientVars
          ELSE /\ DestroyPodCore
               /\ w' = Leave([w EXCEPT !.shown = "Server Timeout", !.fatalWait = "server"],
                             "SystemExit")
               /\ wpc' = "finally"
    /\ UNCHANGED <<dataVars, pollVars, callVars>>

\* run, lines 43-48: connected = client.health_check(); if not connected:
\* show_error("Connection Failed", ...) and return
W_Connect ==
    /\ wpc = "connect"
    /\ \E probe \in Probes :
          LET r == health_check(kind, base_url, pod_id, probe)
          IN  CASE r = "True"  -> wpc' = "cycle" /\ UNCHANGED w
                [] r = "False" -> /\ w' = Leave([w EXCEPT !.shown = "Connection Failed"], "return")
                                  /\ wpc' = "finally"
                [] OTHER       -> /\ w' = Leave(w, r)
                                  /\ wpc' = "finally"
    /\ UNCHANGED <<dataVars, pollVars, clientVars, callVars>>

\* _generation_wizard, lines 188-190: prompt = get_prompt(); an empty prompt
\* returns "quit", which ends run's loop
W_Prompt ==
    /\ wpc = "cycle"
    /\ \E empty \in BOOLEAN :
          IF empty
          THEN /\ w' = Leave(w, "return")
               /\ wpc' = "finally"
          ELSE /\ w' = [w EXCEPT !.cycle = w.cycle + 1, !.request = NoRequest,
                                 !.raised = "none", !.shown = "none", !.task = 0,
                                 !.result = 0, !.audios = <<>>, !.next = 1,
                                 !.downloads = <<>>, !.saved = FALSE,
                                 !.sent = NoRequest, !.polled = 0, !.meta = NoMeta]
               /\ wpc' = "build"
    /\ UNCHANGED <<dataVars, pollVars, clientVars, callVars>>

\* _generation_wizard, lines 201-212: lyrics = get_lyrics(); settings =
\* get_settings(config.generation); request = GenerationRequest(...).  The
\* constructor runs outside the try block of line 216.
W_BuildRequest ==
    /\ wpc = "build"
    /\ \E len \in LyricsLengths, fmt \in SettingsFormats(w.config_fmt) :
          IF validate_lyrics(len)
          THEN /\ w' = [w EXCEPT !.request = Request(len, fmt)]
               /\ wpc' = "submit"
          ELSE /\ w' = Leave([w EXCEPT !.raised = "ValidationError"], "ValidationError")
               /\ wpc' = "finally"
    /\ UNCHANGED <<dataVars, pollVars, clientVars, callVars>>

\* _generation_wizard, line 217: submission = client.submit_task(request).
\* A submitted task gets the next id and its course on the backend; an
\* exception is caught at line 242: show_error("Error", ...).
W_Submit ==
    /\ wpc = "submit"
    /\ \E resp \in Responses :
          LET out == request_outcome(kind, base_url, pod_id, resp)
          IN  IF out = "ok"
              THEN /\ \E sc \in Scripts : script' = sc /\ runsLeft' = sc.n
                   /\ w' = [w EXCEPT !.sent = w.request,
                                     !.task = w.submitted + 1,
                                     !.submitted = w.submitted + 1,
                                     !.inflight = w.inflight \cup {w.submitted + 1}]
                   /\ wpc' = "poll_enter"
              ELSE /\ w' = [w EXCEPT !.sent = w.request, !.raised = out, !.shown = "Error"]
                   /\ wpc' = "menu"
                   /\ UNCHANGED <<script, runsLeft>>
    /\ UNCHANGED <<ppc, now, start, timeout, elapsed, pollResult, countVars,
                   dataVars, clientVars, callVars>>

\* _generation_wizard, line 220: result = poll_with_progress(client, task_id)
W_PollEnter ==
    /\ wpc = "poll_enter"
    /\ PollEnterWith(DEFAULT_TIMEOUT)
    /\ w' = [w EXCEPT !.polled = w.task]
    /\ wpc' = "polling"
    /\ UNCHANGED <<countVars, dataVars, clientVars, callVars>>
W_PollCheck ==
    /\ wpc = "polling" /\ PollCheckCore
    /\ UNCHANGED <<wizVars, countVars, dataVars, clientVars, callVars>>
\* in the wizard's runs a poll_result call takes no time
W_PollFetch ==
    /\ wpc = "polling" /\ PollFetchTaking({0})
    /\ UNCHANGED <<wizVars, countVars, dataVars, clientVars, callVars>>
W_PollFetchRaises ==
    /\ wpc = "polling" /\ PollFetchRaisesTaking({0})
    /\ UNCHANGED <<wizVars, countVars, dataVars, clientVars, callVars>>
W_PollSleep ==
    /\ wpc = "polling" /\ PollSleepCore
    /\ UNCHANGED <<wizVars, countVars, dataVars, clientVars, callVars>>

\* The unfinished tasks when the loop is left by an exception: the polled task
\* stays among them unless its next answer would have been the terminal one.
StillRunning(inflight, task) ==
    IF script.ends /\ runsLeft = 0 THEN inflight \ {task} ELSE inflight

\* _generation_wizard, lines 222-226 and 240-243: what follows the poll loop.
\* A returned result is terminal, so its task is finished on the backend; a
\* failed one is shown, a succeeded one is downloaded (output dir created),
\* any other leads to the menu; TimeoutError and other exceptions are shown.
W_AfterPoll ==
    /\ wpc = "polling"
    /\ ppc \in {"returned", "timeout", "raised"}
    /\ CASE ppc = "returned" /\ is_failed(pollResult) ->
              /\ w' = [w EXCEPT !.result = pollResult, !.inflight = w.inflight \ {w.task},
                                !.shown = "Generation Failed"]
              /\ wpc' = "menu"
         [] ppc = "returned" /\ ~is_failed(pollResult) /\ is_succeeded(pollResult) ->
              /\ \E aud \in SeqsUpTo(Files, MaxAudios) :
                    w' = [w EXCEPT !.result = pollResult, !.inflight = w.inflight \ {w.task},
                                   !.audios = aud, !.next = 1]
              /\ wpc' = "download"
         [] ppc = "returned" /\ ~is_failed(pollResult) /\ ~is_succeeded(pollResult) ->
              /\ w' = [w EXCEPT !.result = pollResult, !.inflight = w.inflight \ {w.task}]
              /\ wpc' = "menu"
         [] ppc = "timeout" ->
              /\ w' = [w EXCEPT !.raised = "TimeoutError", !.shown = "Timeout",
                                !.inflight = StillRunning(w.inflight, w.task)]
              /\ wpc' = "menu"
         [] ppc = "raised" ->
              /\ w' = [w EXCEPT !.raised = "ConnectError", !.shown = "Error",
                                !.inflight = StillRunning(w.inflight, w.task)]
              /\ wpc' = "menu"
    /\ ppc' = "idle" /\ now' = 0 /\ start' = 0 /\ timeout' = 0
    /\ script' = NoScript /\ runsLeft' = 0 /\ elapsed' = 0 /\ pollResult' = 0
    /\ UNCHANGED <<countVars, dataVars, clientVars, callVars>>

\* _generation_wizard, line 228: if audio.file
\* (HasFile), and lines 227-232: one turn of the download loop; an entry
\* without file is skipped; the file name is sample_<i>.<ext> with
\* ext = config.generation.audio_format
HasFile_always(file) == TRUE
HasFile(file) == file # ""

W_Download ==
    /\ wpc = "download"
    /\ w.next <= Len(w.audios)
    /\ IF ~HasFile(w.audios[w.next])
       THEN /\ w' = [w EXCEPT !.next = w.next + 1]
            /\ UNCHANGED wpc
       ELSE \E resp \in Responses :
               LET out == request_outcome(kind, base_url, pod_id, resp)
               IN  IF out = "ok"
                   THEN /\ w' = [w EXCEPT !.next = w.next + 1,
                                          !.downloads = Append(w.downloads,
                                              [n |-> w.next, file |-> w.audios[w.next],
                                               ext |-> w.config_fmt])]
                        /\ UNCHANGED wpc
                   ELSE /\ w' = [w EXCEPT !.raised = out, !.shown = "Error"]
                        /\ wpc' = "menu"
    /\ UNCHANGED <<dataVars, pollVars, clientVars, callVars>>

\* _generation_wizard, lines 235-238: save_metadata, show_success, results table
W_SaveMetadata_beforeDownloads ==
    /\ wpc = "download"
    /\ w' = [w EXCEPT !.saved = TRUE,
                      !.meta = [request |-> w.request, result |-> w.result,
                                after |-> w.downloads]]
    /\ wpc' = "menu"
    /\ UNCHANGED <<dataVars, pollVars, clientVars, callVars>>
W_SaveMetadata ==
    /\ wpc = "download"
    /\ w.next > Len(w.audios)
    /\ w' = [w EXCEPT !.saved = TRUE,
                      !.meta = [request |-> w.request, result |-> w.result,
                                after |-> w.downloads]]
    /\ wpc' = "menu"
    /\ UNCHANGED <<dataVars, pollVars, clientVars, callVars>>

\* _generation_wizard, lines 246-250, and run, lines 51-54: the menu; "q"
\* ends the loop, "g" and "n" start the next cycle
W_Menu ==
    /\ wpc = "menu"
    /\ \E choice \in {"g", "n", "q"} :
          IF choice = "q"
          THEN /\ w' = Leave(w, "return")
               /\ wpc' = "finally"
          ELSE /\ w.cycle < MaxCycles
               /\ wpc' = "cycle"
               /\ UNCHANGED w
    /\ UNCHANGED <<dataVars, pollVars, clientVars, callVars>>

\* run, lines 56-62: finally: if client: client.close(); if launcher and
\* launcher.is_launched: if confirm_action(...): launcher.shutdown()
W_Finally ==
    /\ wpc = "finally"
    /\ IF w.client THEN CloseCore ELSE UNCHANGED clientVars
    /\ IF w.launcher /\ w.proc = "running"
       THEN \E stop \in BOOLEAN :
               w' = [w EXCEPT !.stopAnswer = IF stop THEN "yes" ELSE "no",
                              !.proc = IF stop THEN "stopped" ELSE w.proc]
       ELSE UNCHANGED w
    /\ wpc' = "exited"
    /\ UNCHANGED <<dataVars, pollVars, callVars>>

(***************************************************************************)
(* Request model: GenerationRequest (models/params.py).  Keyword arguments *)
(* and field values are JSON values; the text of prompt and lyrics is kept *)
(* by its length; the float fields hold whole numbers.                     *)
(***************************************************************************)
BPM_MIN == 30
BPM_MAX == 300
DURATION_MIN == 10
DURATION_MAX == 600
VALID_TIME_SIGNATURES == {2, 3, 4, 6}
MAX_PROMPT_LENGTH == 1024
MAX_BATCH_SIZE == 8
VALID_AUDIO_FORMATS == {"mp3", "wav", "flac", "wav32", "opus", "aac"}
VALID_LANGUAGES ==
    {"ar", "az", "bg", "bn", "ca", "cs", "da", "de", "el", "en",
     "es", "fa", "fi", "fr", "he", "hi", "hr", "ht", "hu", "id",
     "is", "it", "ja", "ko", "la", "lt", "ms", "ne", "nl", "no",
     "pa", "pl", "pt", "ro", "ru", "sa", "sk", "sr", "sv", "sw",
     "ta", "te", "th", "tl", "tr", "uk", "ur", "vi", "yue", "zh",
     "unknown"}
KEYSCALE_NOTES == {"A", "B", "C", "D", "E", "F", "G"}
\* "U+266F" and "U+266D" stand for the one-character sharp and flat signs
KEYSCALE_ACCIDENTALS == {"", "#", "b", "U+266F", "U+266D"}
KEYSCALE_MODES == {"major", "minor"}
VALID_KEYSCALES ==
    { note \o acc \o " " \o mode :
        note \in KEYSCALE_NOTES, acc \in KEYSCALE_ACCIDENTALS, mode \in KEYSCALE_MODES }

\* str(ts) for the one-digit numbers
Str(k) ==
    CASE k = 0 -> "0" [] k = 1 -> "1" [] k = 2 -> "2" [] k = 3 -> "3" [] k = 4 -> "4"
      [] k = 5 -> "5" [] k = 6 -> "6" [] k = 7 -> "7" [] k = 8 -> "8" [] OTHER -> "9"

\* a text of the given length
Text(len) == [t |-> "str", n |-> len, s |-> IF len = 0 THEN "" ELSE "text"]

\* the fields in declaration order (lines 47-67)
FieldNames ==
    <<"prompt", "lyrics", "bpm", "key_scale", "time_signature", "vocal_language",
      "audio_duration", "batch_size", "inference_steps", "guidance_scale", "seed",
      "audio_format", "task_type">>
Fields == { FieldNames[i] : i \in 1..Len(FieldNames) }

\* Field(default=...)
Default(f) ==
    CASE f = "bpm"             -> Null
      [] f = "audio_duration"  -> Null
      [] f = "vocal_language"  -> StrV("en")
      [] f = "batch_size"      -> IntV(2)
      [] f = "inference_steps" -> IntV(8)
      [] f = "guidance_scale"  -> IntV(7)
      [] f = "seed"            -> IntV(-1)
      [] f = "audio_format"    -> StrV("mp3")
      [] f = "task_type"       -> StrV("text2music")
      [] OTHER                 -> StrV("")

\* the annotations: Optional[...] admits None; str, or int / float
IsOptional(f) == f \in {"bpm", "audio_duration", "batch_size"}
FieldType(f) ==
    IF f \in {"bpm", "audio_duration", "batch_size", "inference_steps", "guidance_scale", "seed"}
    THEN "int" ELSE "str"
TypeOK(f, v) == v.t = FieldType(f) \/ (IsOptional(f) /\ v.t = "null")

\* the field validators (lines 69-136), TRUE when the value is returned
validate_prompt(len) == len <= MAX_PROMPT_LENGTH
validate_bpm_exclusive(v) == v.t = "null" \/ (BPM_MIN < v.n /\ v.n < BPM_MAX)
validate_bpm(v) == v.t = "null" \/ (BPM_MIN <= v.n /\ v.n <= BPM_MAX)
validate_duration(v) == v.t = "null" \/ (DURATION_MIN <= v.n /\ v.n <= DURATION_MAX)
validate_time_signature(v) ==
    ~Truthy(v) \/ v.s \in { Str(ts) : ts \in VALID_TIME_SIGNATURES }
validate_batch_size(v) == v.t = "null" \/ (1 <= v.n /\ v.n <= MAX_BATCH_SIZE)
validate_key_scale(v) == ~Truthy(v) \/ v.s \in VALID_KEYSCALES
validate_vocal_language(v) == ~Truthy(v) \/ v.s \in VALID_LANGUAGES
validate_audio_format(v) == v.s \in VALID_AUDIO_FORMATS

FieldValid(f, v) ==
    CASE f = "prompt"          -> validate_prompt(v.n)
      [] f = "lyrics"          -> validate_lyrics(v.n)
      [] f = "bpm"             -> validate_bpm(v)
      [] f = "audio_duration"  -> validate_duration(v)
      [] f = "time_signature"  -> validate_time_signature(v)
      [] f = "batch_size"      -> validate_batch_size(v)
      [] f = "key_scale"       -> validate_key_scale(v)
      [] f = "vocal_language"  -> validate_vocal_language(v)
      [] f = "audio_format"    -> validate_audio_format(v)
      [] OTHER                 -> TRUE

\* Keyword arguments: a value for each field, Absent when it is not passed.
NoKwargs == [f \in Fields |-> Absent]

\* GenerationRequest(**kw): the fields that fail (type or validator; a field
\* that is not passed takes its default unvalidated), and the field values
\* when none fails.
Errors(kw) ==
    { f \in Fields : kw[f] # Absent /\ ~(TypeOK(f, kw[f]) /\ FieldValid(f, kw[f])) }
GenerationRequest(kw) ==
    [ ok     |-> Errors(kw) = {},
      errors |-> Errors(kw),
      val    |-> IF Errors(kw) = {}
                 THEN [f \in Fields |-> IF kw[f] = Absent THEN Default(f) ELSE kw[f]]
                 ELSE NoKwargs ]
NoBuilt == [ok |-> FALSE, errors |-> {}, val |-> NoKwargs]

\* to_api_dict (lines 138-142): model_dump(exclude_none=True), then the
\* entries with v != ""; Absent marks a key that is not in the payload.
Omitted_falsy(v) == ~Truthy(v)
Omitted(v) == v.t = "null" \/ (v.t = "str" /\ v.s = "")
to_api_dict(val) == [f \in Fields |-> IF Omitted(val[f]) THEN Absent ELSE val[f]]

\* Values tried for each keyword argument, the bounds of every validator and
\* their neighbours among them.
ValuesOf(f) ==
    CASE f = "prompt"          -> <<Text(0), Text(MAX_PROMPT_LENGTH), Text(MAX_PROMPT_LENGTH + 1)>>
      [] f = "lyrics"          -> <<Text(0), Text(MAX_LYRICS_LENGTH), Text(MAX_LYRICS_LENGTH + 1)>>
      [] f = "bpm"             -> <<Null, IntV(29), IntV(30), IntV(300), IntV(301)>>
      [] f = "audio_duration"  -> <<Null, IntV(9), IntV(10), IntV(600), IntV(601)>>
      [] f = "batch_size"      -> <<Null, IntV(0), IntV(1), IntV(8), IntV(9)>>
      [] f = "key_scale"       -> <<StrV(""), StrV("C major"), StrV("F# minor"), StrV("H major")>>
      [] f = "time_signature"  -> <<StrV(""), StrV("2"), StrV("6"), StrV("5")>>
      [] f = "vocal_language"  -> <<StrV(""), StrV("en"), StrV("ja"), StrV("xx")>>
      [] f = "inference_steps" -> <<Null, IntV(0), IntV(8), IntV(50)>>
      [] f = "guidance_scale"  -> <<IntV(0), IntV(7)>>
      [] f = "seed"            -> <<IntV(-1), IntV(0), IntV(42)>>
      [] f = "audio_format"    -> <<StrV(""), StrV("mp3"), StrV("flac"), StrV("ogg")>>
      [] OTHER                 -> <<StrV(""), StrV("text2music")>>
\* choice 0 is not to pass the argument
FieldValue(f, i) == IF i = 0 THEN Absent ELSE ValuesOf(f)[i]

\* every field passed with a valid, set value
AllSet ==
    [f \in Fields |->
        CASE f = "prompt"          -> Text(MAX_PROMPT_LENGTH)
          [] f = "lyrics"          -> Text(MAX_LYRICS_LENGTH)
          [] f = "bpm"             -> IntV(300)
          [] f = "audio_duration"  -> IntV(600)
          [] f = "batch_size"      -> IntV(8)
          [] f = "key_scale"       -> StrV("F# minor")
          [] f = "time_signature"  -> StrV("6")
          [] f = "vocal_language"  -> StrV("ja")
          [] f = "inference_steps" -> IntV(50)
          [] f = "guidance_scale"  -> IntV(7)
          [] f = "seed"            -> IntV(42)
          [] f = "audio_format"    -> StrV("flac")
          [] OTHER                 -> StrV("text2music")]

\* the keyword arguments that differ from base in the fields of D at most
Varied(base, D) ==
    { [f \in Fields |-> IF f \in D THEN FieldValue(f, g[f]) ELSE base[f]] :
        g \in { h \in [D -> 0..5] : \A f \in D : h[f] <= Len(ValuesOf(f)) } }
\* ... in at most MaxVaried fields, from no argument passed or all passed
KwargSet ==
    UNION { Varied(base, D) : base \in {NoKwargs, AllSet},
                              D \in { E \in SUBSET Fields : Cardinality(E) <= MaxVaried } }

NoRq == [pc |-> "off", kw |-> NoKwargs, built |-> NoBuilt, payload |-> NoKwargs,
         rebuilt |-> NoBuilt, payload2 |-> NoKwargs]

(***************************************************************************)
(* VRAM estimate: estimate_vram_mb (gpu.py).  Durations are counted in     *)
(* hundredths of a second, so that durations below one second are there.   *)
(***************************************************************************)
MODEL_BASE_MB == 4000

\* The durations tried, in hundredths of a second: 0, 0.01 s ... 600 s.
Durations == {0, 1, 4, 23, 27, 100, 1000, 6000, 6900, 12000, 60000}
Batches   == 1..(2 * MaxBatch)

\* per_sample_mb = 1500 * (duration_seconds / 60) is cs / 4, and
\* batch_overhead = per_sample_mb + (batch_size - 1) * per_sample_mb * 0.7
\* is cs * (3 + 7 * batch_size) / 40, here times 40 (lines 71-72)
Overhead40_linear(cs, batch_size) == cs * 10 * batch_size
Overhead40(cs, batch_size) == cs * (3 + 7 * batch_size)

\* The inputs of Durations x 1..12 at which the float arithmetic of lines
\* 71-73 yields a value just below the whole number the exact arithmetic
\* yields, so that int() gives one less (69 s with batch 3: 8139, not 8140).
Undershoots == { <<6900, b>> : b \in {3, 7, 9, 11} }

\* line 73: int(_MODEL_BASE_MB + batch_overhead)
estimate_vram_mb(cs, batch_size) ==
    MODEL_BASE_MB + (Overhead40(cs, batch_size) \div 40)
        - (IF <<cs, batch_size>> \in Undershoots THEN 1 ELSE 0)

NoEst == [pc |-> "off", d1 |-> 0, b1 |-> 1, d2 |-> 0, b2 |-> 1, e1 |-> 0, e2 |-> 0]

(***************************************************************************)
(* Configuration: load_config, _load_dotenv, _parse_toml and               *)
(* _apply_env_overrides (config.py).  os.environ is a function from the    *)
(* three variables the overrides read to their value; the .env file is the *)
(* sequence of its KEY=VALUE lines; a config file is the set of secret     *)
(* fields it gives a value.                                                *)
(***************************************************************************)
\* lines 123-128: the variables _apply_env_overrides reads
SecretVars == {"ACESTEP_API_KEY", "RUNPOD_API_KEY", "ACESTEP_INSTALL_DIR"}
SecretFields == {"server.api_key", "runpod.api_key", "acestep.install_dir"}
EnvVarOf(f) ==
    CASE f = "server.api_key"      -> "ACESTEP_API_KEY"
      [] f = "runpod.api_key"      -> "RUNPOD_API_KEY"
      [] f = "acestep.install_dir" -> "ACESTEP_INSTALL_DIR"

\* key not in os.environ
Unset == "<unset>"
\* lines 25, 29, 46: api_key: str = "", install_dir: str = ""
DefaultSecret(f) == ""

\* the text right of "=" in a line of .env: its characters between the quotes,
\* and whether it is written in quotes
Raw(quoted, text) == [quoted |-> quoted, text |-> text]
\* line 107: value.strip().strip("\"'")
Unquote(raw) == raw.text
RawValues == {Raw(FALSE, ""), Raw(FALSE, "rp-from-dotenv"), Raw(TRUE, "key-quoted")}
EnvValues == {Unset, "", "env-key"}

\* lines 99-110: each KEY=VALUE line in turn sets os.environ[key] unless the key
\* is in os.environ already
RECURSIVE LoadLines(_, _)
LoadLines(environ, lines) ==
    IF lines = <<>> THEN environ
    ELSE LET line == Head(lines)
             next == IF environ[line.key] = Unset
                     THEN [environ EXCEPT ![line.key] = Unquote(line.raw)]
                     ELSE environ
         IN  LoadLines(next, Tail(lines))

\* lines 95-97: no .env in the current directory, nothing is loaded
load_dotenv(environ, dotenv) ==
    IF ~dotenv.exists THEN environ ELSE LoadLines(environ, dotenv.lines)

\* a config file: whether it exists, the secret fields it sets and the text it
\* sets them to
MissingToml == [exists |-> FALSE, sets |-> {}, text |-> ""]
Toml(sets, text) == [exists |-> TRUE, sets |-> sets, text |-> text]

\* lines 79-86: the explicit path if given and existing, else the first existing
\* of DEFAULT_CONFIG_PATHS, else none
SelectedToml(path, files) ==
    IF path # "None" /\ files.explicit.exists THEN files.explicit
    ELSE IF files.cwd.exists THEN files.cwd
    ELSE IF files.home.exists THEN files.home
    ELSE MissingToml

\* lines 116-117 and line 86: AppConfig.model_validate(data), AppConfig()
ParsedSecret(toml, f) == IF f \in toml.sets THEN toml.text ELSE DefaultSecret(f)

\* lines 123-128: if value := os.environ.get(VAR): config.field = value
Overrides(value) == value # Unset /\ value # ""
apply_env_overrides(config, environ) ==
    [f \in SecretFields |->
        IF Overrides(environ[EnvVarOf(f)]) THEN environ[EnvVarOf(f)] ELSE config[f]]

\* lines 77-86
load_config(path, files, environ) ==
    apply_env_overrides([f \in SecretFields |-> ParsedSecret(SelectedToml(path, files), f)],
                        environ)

NoDotenv == [exists |-> FALSE, lines |-> <<>>]
NoTomls == [explicit |-> MissingToml, cwd |-> MissingToml, home |-> MissingToml]
NoCfg == [pc |-> "off", before |-> [v \in SecretVars |-> Unset],
          environ |-> [v \in SecretVars |-> Unset], dotenv |-> NoDotenv,
          path |-> "None", files |-> NoTomls,
          result |-> [f \in SecretFields |-> ""]]

(***************************************************************************)
(* Server launcher: ServerLauncher (server/launcher.py).                   *)
(***************************************************************************)
\* The launcher object with the subprocess it refers to and the position of a
\* wait_until_ready call.
NoLauncher ==
    [ process   |-> "none",   \* "none": _process is None; else the state of the
                              \* subprocess _process refers to: "running", "exited"
      launches  |-> 0,        \* subprocess.Popen calls so far
      signals   |-> <<>>,     \* the terminate() and kill() calls so far, in order
      calls     |-> 0,        \* launch and shutdown calls so far
      lastOp    |-> "none",   \* the last of them
      lastSent  |-> <<>>,     \* the terminate() and kill() calls it made
      waitTimedOut |-> FALSE, \* whether its _process.wait(timeout=10) raised TimeoutExpired
      pc        |-> "off",    \* wait_until_ready: idle/check/probe/sleep/True/False/raised
      now       |-> 0,        \* time.monotonic(), whole seconds
      entered   |-> 0,        \* its value when wait_until_ready was entered
      deadline  |-> 0,        \* line 70
      probes    |-> <<>>,     \* how the transport answered the probes of the loop
      sleeps    |-> 0,        \* time.sleep(2) calls of the loop
      exc       |-> "none" ]  \* the exception that left the loop

\* is_launched, lines 23-26: _process is not None and _process.poll() is None
is_launched(l) == l.process = "running"

\* is_running, lines 38-42: True on status 200, False on another status and on
\* httpx.ConnectError; a timeout of httpx.get raises httpx.TimeoutException,
\* which the except clause does not name
launcher_is_running(probe) ==
    CASE probe = "200"     -> "True"
      [] probe = "503"     -> "False"
      [] probe = "refused" -> "False"
      [] OTHER             -> "TimeoutException"

\* launch, lines 51-56: self._process = subprocess.Popen(...)
launch(l) ==
    [l EXCEPT !.process = "running", !.launches = l.launches + 1,
              !.calls = l.calls + 1, !.lastOp = "launch", !.lastSent = <<>>,
              !.waitTimedOut = FALSE]

\* shutdown, lines 83-95; inTime: the subprocess exits within the 10 seconds
\* of _process.wait(timeout=10)
shutdown_keepsProcess(l, inTime) ==
    IF l.process = "none"
    THEN [l EXCEPT !.calls = l.calls + 1, !.lastOp = "shutdown", !.lastSent = <<>>,
                   !.waitTimedOut = FALSE]
    ELSE LET sent == IF inTime THEN <<"terminate">> ELSE <<"terminate", "kill">>
         IN  [l EXCEPT !.process = "exited", !.signals = l.signals \o sent,
                       !.calls = l.calls + 1, !.lastOp = "shutdown", !.lastSent = sent,
                       !.waitTimedOut = ~inTime]
shutdown(l, inTime) ==
    IF l.process = "none"
    THEN [l EXCEPT !.calls = l.calls + 1, !.lastOp = "shutdown", !.lastSent = <<>>,
                   !.waitTimedOut = FALSE]
    ELSE LET sent == IF inTime THEN <<"terminate">> ELSE <<"terminate", "kill">>
         IN  [l EXCEPT !.process = "none", !.signals = l.signals \o sent,
                       !.calls = l.calls + 1, !.lastOp = "shutdown", !.lastSent = sent,
                       !.waitTimedOut = ~inTime]

\* wait_until_ready, line 70: deadline = time.monotonic() + timeout
WaitEnter(l, t) ==
    [l EXCEPT !.pc = "check", !.entered = l.now, !.deadline = l.now + t,
              !.probes = <<>>, !.sleeps = 0, !.exc = "none"]
\* line 71: while time.monotonic() < deadline; line 75: return False
WaitCheck(l) ==
    [l EXCEPT !.pc = IF l.now < l.deadline THEN "probe" ELSE "False"]
\* lines 72-73: if self.is_running(base_url): return True; the probe takes d seconds
WaitProbe(l, probe, d) ==
    LET r == launcher_is_running(probe)
    IN  [l EXCEPT !.probes = Append(l.probes, probe),
                  !.now = l.now + d,
                  !.pc = CASE r = "True"  -> "True"
                           [] r = "False" -> "sleep"
                           [] OTHER       -> "raised",
                  !.exc = IF r \in {"True", "False"} THEN "none" ELSE r]
\* line 74: time.sleep(2)
WaitSleep(l) ==
    [l EXCEPT !.now = l.now + 2, !.sleeps = l.sleeps + 1, !.pc = "check"]

(***************************************************************************)
(* Idle values: what each group of variables holds in a specification that *)
(* does not use it.                                                        *)
(***************************************************************************)
NoArg     == [dir |-> 0, chunks |-> <<>>]
NoCall    == [op |-> "none", outcome |-> "none", input |-> "none", queries |-> <<>>,
              arg |-> NoArg]

CountIdle ==
    /\ pollCalls = 0 /\ sleeps = 0 /\ checksPassed = 0
NormIdle ==
    /\ item = NoItem /\ normOut = Pending
PureIdle ==
    /\ rq = NoRq /\ est = NoEst /\ cfg = NoCfg /\ ln = NoLauncher
DataIdle ==
    /\ NormIdle /\ PureIdle
PollIdle ==
    /\ ppc = "idle" /\ now = 0 /\ start = 0 /\ timeout = 0
    /\ script = NoScript /\ runsLeft = 0
    /\ elapsed = 0 /\ pollResult = 0
    /\ CountIdle
ClientIdle ==
    /\ kind = "none" /\ pod_id = 0 /\ base_url = NoUrl /\ http = "none"
    /\ created = 0 /\ terminateCalls = <<>>
CallIdle ==
    /\ calls = 0 /\ lastCall = NoCall /\ httpCount = 0 /\ disk = NoDisk
WizIdle ==
    /\ wpc = "off" /\ w = NoWizard

(***************************************************************************)
(* NormSpec: from_api_response applied once to an item of ItemSet.         *)
(***************************************************************************)
NormInit ==
    /\ item \in ItemSet
    /\ normOut = Pending
    /\ PureIdle
    /\ PollIdle /\ ClientIdle /\ CallIdle /\ WizIdle

Normalize ==
    /\ normOut.state = "pending"
    /\ normOut' = from_api_response(item)
    /\ UNCHANGED <<item, pureVars, pollVars, clientVars, callVars, wizVars>>

NormNext == Normalize
NormSpec == NormInit /\ [][NormNext]_vars

(***************************************************************************)
(* RequestSpec: a GenerationRequest is constructed from keyword arguments  *)
(* of KwargSet; if that succeeds, to_api_dict is called on it, a second    *)
(* request is constructed from the payload, and to_api_dict on that one.   *)
(***************************************************************************)
RequestInit ==
    /\ \E kw \in KwargSet : rq = [NoRq EXCEPT !.pc = "new", !.kw = kw]
    /\ est = NoEst /\ cfg = NoCfg /\ ln = NoLauncher
    /\ NormIdle
    /\ PollIdle /\ ClientIdle /\ CallIdle /\ WizIdle

R_Construct ==
    /\ rq.pc = "new"
    /\ rq' = [rq EXCEPT !.built = GenerationRequest(rq.kw),
                        !.pc = IF GenerationRequest(rq.kw).ok THEN "built" ELSE "invalid"]
    /\ UNCHANGED <<est, cfg, ln, normVars, pollVars, clientVars, callVars, wizVars>>

R_ToApiDict ==
    /\ rq.pc = "built"
    /\ rq' = [rq EXCEPT !.payload = to_api_dict(rq.built.val), !.pc = "dumped"]
    /\ UNCHANGED <<est, cfg, ln, normVars, pollVars, clientVars, callVars, wizVars>>

R_Reconstruct ==
    /\ rq.pc = "dumped"
    /\ rq' = [rq EXCEPT !.rebuilt = GenerationRequest(rq.payload),
                        !.payload2 = IF GenerationRequest(rq.payload).ok
                                     THEN to_api_dict(GenerationRequest(rq.payload).val)
                                     ELSE NoKwargs,
                        !.pc = "rebuilt"]
    /\ UNCHANGED <<est, cfg, ln, normVars, pollVars, clientVars, callVars, wizVars>>

RequestNext == R_Construct \/ R_ToApiDict \/ R_Reconstruct
RequestSpec == RequestInit /\ [][RequestNext]_vars

(***************************************************************************)
(* VramSpec: estimate_vram_mb is called on two inputs.                      *)
(***************************************************************************)
VramInit ==
    /\ \E d1 \in Durations, d2 \in Durations, b1 \in Batches, b2 \in Batches :
          est = [NoEst EXCEPT !.pc = "new", !.d1 = d1, !.b1 = b1, !.d2 = d2, !.b2 = b2]
    /\ rq = NoRq /\ cfg = NoCfg /\ ln = NoLauncher
    /\ NormIdle /\ PollIdle /\ ClientIdle /\ CallIdle /\ WizIdle

V_Estimate ==
    /\ est.pc = "new"
    /\ est' = [est EXCEPT !.pc = "done",
                          !.e1 = estimate_vram_mb(est.d1, est.b1),
                          !.e2 = estimate_vram_mb(est.d2, est.b2)]
    /\ UNCHANGED <<rq, cfg, ln, normVars, pollVars, clientVars, callVars, wizVars>>

VramNext == V_Estimate
VramSpec == VramInit /\ [][VramNext]_vars

(***************************************************************************)
(* ConfigSpec: load_config(path) is called once, in an environment, a      *)
(* current directory and a home directory drawn from bounded sets.         *)
(***************************************************************************)
DotenvSet ==
    {NoDotenv} \cup
    { [exists |-> TRUE, lines |-> l] :
        l \in UNION { [1..n -> [key : SecretVars, raw : RawValues]] : n \in 0..MaxLines } }
TomlsSet ==
    { [explicit |-> e, cwd |-> c, home |-> h] :
        e \in {MissingToml} \cup { Toml(s, "toml-key") :
                                     s \in {{}, {"server.api_key"}, SecretFields} },
        c \in {MissingToml, Toml(SecretFields, "cwd-key")},
        h \in {MissingToml, Toml(SecretFields, "home-key")} }

ConfigInit ==
    /\ \E environ \in [SecretVars -> EnvValues], dotenv \in DotenvSet,
          path \in {"None", "given"}, files \in TomlsSet :
          /\ path = "None" => files.explicit = MissingToml
          /\ cfg = [NoCfg EXCEPT !.pc = "new", !.before = environ, !.environ = environ,
                                 !.dotenv = dotenv, !.path = path, !.files = files]
    /\ rq = NoRq /\ est = NoEst /\ ln = NoLauncher
    /\ NormIdle /\ PollIdle /\ ClientIdle /\ CallIdle /\ WizIdle

F_LoadConfig ==
    /\ cfg.pc = "new"
    /\ cfg' = [cfg EXCEPT !.pc = "done",
                          !.environ = load_dotenv(cfg.environ, cfg.dotenv),
                          !.result = load_config(cfg.path, cfg.files,
                                                 load_dotenv(cfg.environ, cfg.dotenv))]
    /\ UNCHANGED <<rq, est, ln, normVars, pollVars, clientVars, callVars, wizVars>>

ConfigNext == F_LoadConfig
ConfigSpec == ConfigInit /\ [][ConfigNext]_vars

(***************************************************************************)
(* LauncherSpec: one ServerLauncher; launch and shutdown calls in any       *)
(* order, the subprocess exiting on its own, and one wait_until_ready call  *)
(* whose probes the transport answers in any of the ways of Probes.         *)
(***************************************************************************)
LauncherInit ==
    /\ \E t0 \in 0..1 : ln = [NoLauncher EXCEPT !.pc = "idle", !.now = t0]
    /\ rq = NoRq /\ est = NoEst /\ cfg = NoCfg
    /\ NormIdle /\ PollIdle /\ ClientIdle /\ CallIdle /\ WizIdle

LauncherRest == UNCHANGED <<rq, est, cfg, normVars, pollVars, clientVars, callVars, wizVars>>
\* no call is made on the launcher while wait_until_ready runs
BetweenCalls == ln.pc \in {"idle", "True", "False", "raised"}

L_Launch ==
    /\ BetweenCalls /\ ln.calls < MaxLifecycle /\ ln.launches < MaxLaunches
    /\ ln' = launch(ln)
    /\ LauncherRest
L_Shutdown ==
    /\ BetweenCalls /\ ln.calls < MaxLifecycle
    /\ \E inTime \in BOOLEAN :
          /\ ln.process = "exited" => inTime
          /\ ln' = shutdown(ln, inTime)
    /\ LauncherRest
\* the subprocess ends by itself
L_ProcessExits ==
    /\ ln.process = "running"
    /\ ln' = [ln EXCEPT !.process = "exited"]
    /\ LauncherRest
L_WaitEnter ==
    /\ ln.pc = "idle"
    /\ \E t \in 0..MaxWait : ln' = WaitEnter(ln, t)
    /\ LauncherRest
L_WaitCheck ==
    /\ ln.pc = "check"
    /\ ln' = WaitCheck(ln)
    /\ LauncherRest
L_WaitProbe ==
    /\ ln.pc = "probe"
    /\ \E probe \in Probes, d \in 0..MaxProbeDur : ln' = WaitProbe(ln, probe, d)
    /\ LauncherRest
L_WaitSleep ==
    /\ ln.pc = "sleep"
    /\ ln' = WaitSleep(ln)
    /\ LauncherRest

LauncherNext ==
    \/ L_Launch \/ L_Shutdown \/ L_ProcessExits
    \/ L_WaitEnter \/ L_WaitCheck \/ L_WaitProbe \/ L_WaitSleep
LauncherSpec == LauncherInit /\ [][LauncherNext]_vars

(***************************************************************************)
(* PollSpec: poll_with_progress(client, task_id, timeout) with a fake      *)
(* client that answers running script.n times and then script.final, or    *)
(* running forever.  FairPollSpec adds that the loop keeps running (the    *)
(* calls return and time.sleep returns).                                   *)
(***************************************************************************)
PollInit ==
    /\ ppc = "idle"
    /\ now \in 0..MaxClock
    /\ start = 0 /\ timeout = 0
    /\ script \in Scripts
    /\ runsLeft = script.n
    /\ elapsed = 0 /\ pollResult = 0
    /\ CountIdle
    /\ DataIdle /\ ClientIdle /\ CallIdle /\ WizIdle

PollEnter ==
    /\ \E t \in 0..MaxTimeout : PollEnterWith(t)
    /\ UNCHANGED <<countVars, dataVars, clientVars, callVars, wizVars>>
PollCheck ==
    /\ PollCheckCore
    /\ checksPassed' = IF ppc' = "fetch" THEN checksPassed + 1 ELSE checksPassed
    /\ UNCHANGED <<pollCalls, sleeps, dataVars, clientVars, callVars, wizVars>>
PollFetch ==
    /\ PollFetchCore
    /\ pollCalls' = pollCalls + 1
    /\ UNCHANGED <<sleeps, checksPassed, dataVars, clientVars, callVars, wizVars>>
PollSleep ==
    /\ PollSleepCore
    /\ sleeps' = sleeps + 1
    /\ UNCHANGED <<pollCalls, checksPassed, dataVars, clientVars, callVars, wizVars>>

PollNext == PollEnter \/ PollCheck \/ PollFetch \/ PollSleep
PollSpec == PollInit /\ [][PollNext]_vars
FairPollSpec == PollSpec /\ WF_vars(PollNext)

(***************************************************************************)
(* ClientSpec: a constructed LocalClient or RunPodClient and any sequence  *)
(* of up to MaxCalls method calls on it; the transport and the provider    *)
(* answer each call in any of the ways listed in Probes, Responses, PodObs.*)
(***************************************************************************)
ClientInit ==
    /\ kind \in {"local", "runpod"}
    /\ pod_id = 0
    /\ base_url = IF kind = "local" THEN LocalUrl ELSE NoUrl
    /\ http = "open"
    /\ created = 0 /\ terminateCalls = <<>>
    /\ CallIdle
    /\ DataIdle /\ PollIdle /\ WizIdle

\* queries: the provider answers to runpod.get_pod during the call
\* arg: the local path and the streamed chunks of a download
Record(op, in, out, sent, queries, arg) ==
    /\ calls' = calls + 1
    /\ lastCall' = [op |-> op, outcome |-> out, input |-> in, queries |-> queries,
                    arg |-> arg]
    /\ httpCount' = httpCount + sent
    /\ UNCHANGED <<dataVars, pollVars, wizVars>>

CalledWith(op, in, out, sent, queries) ==
    /\ calls < MaxCalls
    /\ Record(op, in, out, sent, queries, NoArg)
    /\ UNCHANGED disk

Called(op, in, out, sent) == CalledWith(op, in, out, sent, <<>>)

Count(sends) == IF sends THEN 1 ELSE 0

C_HealthCheck ==
    /\ http = "open"
    /\ \E probe \in Probes :
          Called("health_check", probe, health_check(kind, base_url, pod_id, probe),
                 Count(Sends(kind, base_url, pod_id)))
    /\ UNCHANGED clientVars

C_Request(op) ==
    /\ http = "open"
    /\ \E resp \in Responses :
          Called(op, resp, request_outcome(kind, base_url, pod_id, resp),
                 Count(Sends(kind, base_url, pod_id)))
    /\ UNCHANGED clientVars

C_SubmitTask    == C_Request("submit_task")
C_PollResult    == C_Request("poll_result")

\* Download(dirs): a download_audio call to a path below one of dirs
Download(dirs) ==
    /\ http = "open"
    /\ \E dir \in dirs, resp \in Responses, chunks \in ChunkSeqs :
          /\ DownloadCore(dir, resp, chunks)
          /\ Record("download_audio", resp,
                    download_audio(kind, base_url, pod_id, resp, dir, disk),
                    Count(Sends(kind, base_url, pod_id)), <<>>,
                    [dir |-> dir, chunks |-> chunks])
    /\ UNCHANGED clientVars

\* in ClientSpec the downloads go to the output root
C_DownloadAudio ==
    /\ calls < MaxCalls
    /\ Download({0})

C_CreatePod ==
    /\ kind = "runpod"
    /\ CreatePodCore
    /\ Called("create_pod", "none", "ok", 0)

C_WaitForPod ==
    /\ kind = "runpod"
    /\ \E obs \in SeqsUpTo(PodObs, MaxObs) \ {<<>>} :
          /\ WaitForPodCore(obs)
          /\ CalledWith("wait_for_pod", "none", wait_for_pod(pod_id, obs), 0,
                        PodQueries(pod_id, obs))

C_WaitForServer ==
    /\ kind = "runpod" /\ http = "open"
    /\ \E probes \in SeqsUpTo(Probes, MaxObs) \ {<<>>} :
          Called("wait_for_server", "none",
                 IF wait_for_server(kind, base_url, pod_id, probes) THEN "True" ELSE "False",
                 0)
    /\ UNCHANGED clientVars

C_DestroyPod ==
    /\ kind = "runpod"
    /\ DestroyPodCore
    /\ Called("destroy_pod", "none", IF pod_id # 0 THEN "terminated" ELSE "noop", 0)

C_Close ==
    /\ http = "open"
    /\ CloseCore
    /\ Called("close", "none", "ok", 0)

ClientNext ==
    \/ C_HealthCheck \/ C_SubmitTask \/ C_PollResult \/ C_DownloadAudio
    \/ C_CreatePod \/ C_WaitForPod \/ C_WaitForServer \/ C_DestroyPod \/ C_Close
ClientSpec == ClientInit /\ [][ClientNext]_vars

(***************************************************************************)
(* DownloadSpec: up to MaxDownloads download_audio calls of a LocalClient,  *)
(* a RunPodClient with a ready pod, or one without a pod, to paths at any   *)
(* depth below the output root, of which the directories up to some depth   *)
(* exist.                                                                   *)
(***************************************************************************)
DownloadInit ==
    /\ kind \in {"local", "runpod"}
    /\ created \in (IF kind = "local" THEN {0} ELSE {0, 1})
    /\ pod_id = created
    /\ base_url = IF kind = "local" THEN LocalUrl
                  ELSE IF pod_id = 0 THEN NoUrl ELSE PodUrl(pod_id)
    /\ http = "open"
    /\ terminateCalls = <<>>
    /\ calls = 0 /\ lastCall = NoCall /\ httpCount = 0
    /\ \E d \in 0..MaxDepth : disk = [NoDisk EXCEPT !.depth = d]
    /\ DataIdle /\ PollIdle /\ WizIdle

D_DownloadAudio ==
    /\ calls < MaxDownloads
    /\ Download(0..MaxDepth)

DownloadNext == D_DownloadAudio
DownloadSpec == DownloadInit /\ [][DownloadNext]_vars

(***************************************************************************)
(* WizardSpec: one session of run(config), with every answer of the user,  *)
(* the transport, the provider and the backend.  The wizard calls          *)
(* poll_with_progress with its default timeout; the clock is read from 0   *)
(* at each loop entry.                                                     *)
(***************************************************************************)
WizInit ==
    /\ wpc = "mode"
    /\ \E f \in ConfigFormats : w = [NoWizard EXCEPT !.config_fmt = f]
    /\ DataIdle /\ PollIdle /\ ClientIdle /\ CallIdle

WizNext ==
    \/ W_ChooseMode
    \/ W_LocalConstruct \/ W_LocalHealth \/ W_LocalWait
    \/ W_RunpodConfirm \/ W_CreatePod \/ W_WaitForPod \/ W_WaitForServer
    \/ W_Connect
    \/ W_Prompt \/ W_BuildRequest \/ W_Submit
    \/ W_PollEnter \/ W_PollCheck \/ W_PollFetch \/ W_PollFetchRaises \/ W_PollSleep
    \/ W_AfterPoll \/ W_Download \/ W_SaveMetadata \/ W_Menu
    \/ W_Finally
WizardSpec == WizInit /\ [][WizNext]_vars

(***************************************************************************)
(* Claims about the request model (RequestSpec).                           *)
(***************************************************************************)
\* C13: every GenerationRequest that was constructed satisfies all bounds of
\* the data model: prompt at most 1024 and lyrics at most 4096 characters, BPM
\* null or in 30..300, duration null or in 10..600, time signature unset or
\* one of 2, 3, 4, 6, key/scale unset or in the valid set, batch size in 1..8,
\* inference steps a positive integer, audio format and vocal language in
\* their closed sets (so a construction violating one of them fails).
C13_RequestWithinBounds ==
    rq.built.ok =>
        LET v == rq.built.val IN
        /\ v["prompt"].n <= 1024
        /\ v["lyrics"].n <= 4096
        /\ v["bpm"] = Null \/ (v["bpm"].n >= 30 /\ v["bpm"].n <= 300)
        /\ v["audio_duration"] = Null
              \/ (v["audio_duration"].n >= 10 /\ v["audio_duration"].n <= 600)
        /\ v["time_signature"].s \in {"", "2", "3", "4", "6"}
        /\ v["key_scale"].s \in VALID_KEYSCALES \cup {""}
        /\ v["batch_size"].t = "int" /\ v["batch_size"].n \in 1..8
        /\ v["inference_steps"].t = "int" /\ v["inference_steps"].n > 0
        /\ v["audio_format"].s \in VALID_AUDIO_FORMATS
        /\ v["vocal_language"].s \in VALID_LANGUAGES

\* C14: the numeric bound checks are inclusive on both ends: a BPM that is
\* passed and not null is accepted iff 30 <= bpm <= 300, a duration iff
\* 10 <= d <= 600, a batch size iff 1 <= b <= 8.
C14_InclusiveBounds ==
    rq.pc \notin {"off", "new"} =>
        /\ rq.kw["bpm"].t = "int" =>
              ("bpm" \notin rq.built.errors <=> rq.kw["bpm"].n \in 30..300)
        /\ rq.kw["audio_duration"].t = "int" =>
              ("audio_duration" \notin rq.built.errors <=> rq.kw["audio_duration"].n \in 10..600)
        /\ rq.kw["batch_size"].t = "int" =>
              ("batch_size" \notin rq.built.errors <=> rq.kw["batch_size"].n \in 1..8)

\* BPM 300 with batch size 9: only the batch size is refused
C14_Witness ==
    /\ rq.pc = "invalid"
    /\ rq.kw["bpm"] = IntV(300) /\ rq.kw["batch_size"] = IntV(9)
    /\ rq.built.errors = {"batch_size"}

\* C15: for every valid request r, constructing a request from r.to_api_dict()
\* succeeds and its to_api_dict() equals r.to_api_dict(), whichever optional
\* fields are set or unset (null or empty string).
C15_PayloadRoundTrip ==
    rq.pc = "rebuilt" => rq.rebuilt.ok /\ rq.payload2 = rq.payload

\* C16: to_api_dict returns exactly the fields whose value is neither null nor
\* the empty string, each with its validated value: a null or empty field is
\* not in the payload and any other value (0 and -1 included) is.
C16_PayloadOmitsUnset ==
    rq.pc \in {"dumped", "rebuilt"} =>
        \A f \in Fields :
            IF rq.built.val[f] = Null \/ rq.built.val[f] = StrV("")
            THEN rq.payload[f] = Absent
            ELSE rq.payload[f] = rq.built.val[f]

\* seed 0 is kept, the null BPM and the empty key are left out
C16_Witness ==
    /\ rq.pc = "dumped"
    /\ rq.built.val["seed"] = IntV(0) /\ rq.payload["seed"] = IntV(0)
    /\ rq.built.val["bpm"] = Null /\ rq.payload["bpm"] = Absent
    /\ rq.built.val["key_scale"] = StrV("") /\ rq.payload["key_scale"] = Absent

(***************************************************************************)
(* Claims about the result normalizer (NormSpec).                          *)
(***************************************************************************)
\* C1: from_api_response is total: whatever the item, the call raises nothing
\* and returns a TaskResult; without a status the result is running (0), and
\* without a usable result field it has no audios.
C1_NormalizerTotal ==
    normOut.state # "pending" =>
        /\ normOut.state = "returned"
        /\ item.status.t = "absent" => normOut.tr.status = 0
        /\ (item.result.t \in {"absent", "null"} \/ item.result = StrV("not-json"))
               => normOut.tr.audios = <<>>

\* C17: every TaskResult the normalizer returns has a status in {0, 1, 2}, so
\* exactly one of is_running, is_succeeded, is_failed holds for it, and a
\* result that is not running is succeeded or failed.
C17_StatusClosedSet ==
    normOut.state = "returned" =>
        LET st == normOut.tr.status IN
        /\ st \in {0, 1, 2}
        /\ Cardinality({ p \in {"running", "succeeded", "failed"} :
                            \/ p = "running"   /\ is_running(st)
                            \/ p = "succeeded" /\ is_succeeded(st)
                            \/ p = "failed"    /\ is_failed(st) }) = 1
        /\ ~is_running(st) => is_succeeded(st) \/ is_failed(st)

\* C23: for an item whose outer fields are usable and whose result decodes to
\* a sequence, the normalizer returns one AudioResult per mapping entry, in
\* input order, with the entry's own status when it has one and the outer item
\* status otherwise; entries that are not mappings are skipped.
C23_OneAudioPerMapping ==
    LET status == Get(item.status, IntV(0))
        pt     == Get(item.progress_text, StrV(""))
        rd     == ResultData(item)
        dicts  == SelectDicts(rd.list)
    IN  (/\ normOut.state # "pending"
         /\ IsStr(item.task_id) /\ IsInt(status) /\ (IsStr(pt) \/ ~Truthy(pt))
         /\ rd.val.t = "list")
        => /\ normOut.state = "returned"
           /\ Len(normOut.tr.audios) = Len(dicts)
           /\ \A i \in 1..Len(dicts) :
                 normOut.tr.audios[i].status =
                     (IF dicts[i].status.t # "absent" THEN dicts[i].status.n ELSE status.n)

(***************************************************************************)
(* Claims about the poll loop (PollSpec, FairPollSpec).                    *)
(***************************************************************************)
\* C2: against a client that answers running exactly N times and then a
\* non-running status, a loop that returns has returned that first
\* non-running result after exactly N+1 poll_result calls and exactly N sleeps,
\* and nothing is polled or slept afterwards (the counts stay at N+1 and N).
C2_ReturnsAfterNPolls ==
    ppc = "returned" =>
        /\ script.ends
        /\ runsLeft = 0
        /\ pollResult = script.final
        /\ pollCalls = script.n + 1
        /\ sleeps = script.n

C2_Witness ==
    ppc = "returned" /\ script.ends /\ script.n >= 2 /\ pollCalls = script.n + 1 /\ sleeps = script.n

\* C3: against a client that answers running forever the loop never returns a
\* result; it raises TimeoutError, and only at a check that found
\* elapsed > timeout, every earlier check having found elapsed <= timeout and
\* every poll_result call having followed a passed check; under fairness it
\* eventually does raise.
C3_Safety ==
    ~script.ends =>
        /\ ppc # "returned"
        /\ ppc = "timeout" => elapsed > timeout /\ elapsed = now - start
        /\ ppc \in {"fetch", "sleep"} => elapsed <= timeout
        /\ pollCalls <= checksPassed
        /\ ppc \in {"timeout", "check", "sleep"} => pollCalls = checksPassed

C3_TimesOut ==
    /\ []C3_Safety
    /\ (~script.ends) ~> (ppc = "timeout")

C3_Witness ==
    ppc = "timeout" /\ ~script.ends /\ pollCalls >= 2 /\ elapsed > timeout

\* C29: poll_result is called only in an iteration whose deadline check found
\* elapsed <= timeout; one 2-second sleep lies between two consecutive polls;
\* and when the polls take no time (the clock moved by the sleeps only) a loop
\* makes at most floor(timeout / 2) + 1 polls.
C29_PollsBounded ==
    ppc # "idle" =>
        /\ ppc = "fetch" => elapsed <= timeout
        /\ pollCalls = (IF ppc = "fetch" THEN checksPassed - 1 ELSE checksPassed)
        /\ sleeps = (IF ppc \in {"sleep", "returned"} THEN pollCalls - 1 ELSE pollCalls)
        /\ now - start >= 2 * sleeps
        /\ now - start = 2 * sleeps => pollCalls <= (timeout \div 2) + 1

C29_Witness ==
    /\ ppc = "timeout" /\ timeout >= 4
    /\ now - start = 2 * sleeps
    /\ pollCalls = (timeout \div 2) + 1

(***************************************************************************)
(* Claims about the clients (ClientSpec).                                  *)
(***************************************************************************)
RequestOps == {"submit_task", "poll_result", "download_audio"}

\* C4: for both client variants health_check returns true only when the probe
\* answered 200, and when the probe fails at connection level (refused or
\* timeout) it returns false and raises nothing.
C4_HealthCheckNeverRaises ==
    lastCall.op = "health_check" =>
        /\ lastCall.outcome \in {"True", "False"}
        /\ lastCall.outcome = "True" => lastCall.input = "200"
        /\ lastCall.input \in {"refused", "timeout"} => lastCall.outcome = "False"

\* C5: on a RunPodClient whose base URL is unset, submit_task, poll_result and
\* download_audio end with the precondition error (RuntimeError), send no HTTP
\* request and change nothing of the client; with the base URL set they never
\* end with that error, and a non-success HTTP status ends them with the
\* transport error (HTTPStatusError).
C5_PreconditionError ==
    [][ (calls' = calls + 1 /\ lastCall'.op \in RequestOps /\ kind = "runpod") =>
           IF ~base_url.set
           THEN /\ lastCall'.outcome = "RuntimeError"
                /\ httpCount' = httpCount
                /\ UNCHANGED clientVars
           ELSE /\ lastCall'.outcome # "RuntimeError"
                /\ httpCount' = httpCount + 1
                /\ lastCall'.input = "http_error" => lastCall'.outcome = "HTTPStatusError"
      ]_vars

\* a download refused with the precondition error after destroy_pod
C5_Witness ==
    /\ kind = "runpod" /\ lastCall.op = "download_audio"
    /\ lastCall.outcome = "RuntimeError"
    /\ terminateCalls # <<>> /\ ~base_url.set /\ httpCount = 0

\* C10: destroy_pod without a pod calls nothing and changes nothing; with a
\* pod it calls terminate once, for that pod id, and clears pod id and base
\* URL; a destroy_pod directly after a destroy_pod issues no terminate call,
\* and no pod id is ever terminated twice.
NoDuplicates(q) == \A i, j \in 1..Len(q) : q[i] = q[j] => i = j

C11_WaitForPodReady ==
    [][ (calls' = calls + 1 /\ lastCall'.op = "wait_for_pod") =>
          LET made  == lastCall'.queries
              ready == { i \in 1..Len(made) :
                            /\ made[i].desiredStatus = "RUNNING"
                            /\ made[i].runtime \notin {Null, Absent, IntV(0)} }
          IN  /\ pod_id' = pod_id
              /\ lastCall'.outcome \in {"ok", "TimeoutError", "RuntimeError"}
              /\ lastCall'.outcome = "ok" <=> ready # {}
              /\ lastCall'.outcome = "ok" =>
                    /\ pod_id # 0
                    /\ ready = {Len(made)}
                    /\ base_url' = PodUrl(pod_id)
                    /\ \A p \in 1..MaxPods : p # pod_id => PodUrl(p) # base_url'
              /\ lastCall'.outcome = "TimeoutError" =>
                    pod_id # 0 /\ made # <<>> /\ base_url' = base_url
              /\ lastCall'.outcome = "RuntimeError" <=> pod_id = 0
              /\ pod_id = 0 => made = <<>> /\ base_url' = base_url
      ]_vars

\* the second pod became ready at the second answer, after one with null runtime
C11_Witness ==
    /\ lastCall.op = "wait_for_pod" /\ lastCall.outcome = "ok"
    /\ pod_id = 2 /\ base_url = PodUrl(2)
    /\ Len(lastCall.queries) = 2
    /\ lastCall.queries[1] = [desiredStatus |-> "RUNNING", runtime |-> Null]

\* C12: download_audio has one contract in both client variants: when the
\* endpoint is resolved and the response is a success, the call returns
\* local_path, every missing parent directory of local_path exists afterwards,
\* the file holds exactly the received chunks in order and no other file
\* changed; on a non-success HTTP status it raises HTTPStatusError and the
\* file system is unchanged.
C12_DownloadSameContract ==
    [][ (calls' = calls + 1 /\ lastCall'.op = "download_audio" /\ base_url.set) =>
          LET dir == lastCall'.arg.dir IN
          /\ lastCall'.input = "ok" =>
                /\ lastCall'.outcome = "ok"
                /\ disk'.depth >= dir /\ disk'.depth >= disk.depth
                /\ disk'.files[dir] = File(lastCall'.arg.chunks)
                /\ \A d \in 0..MaxDepth : d # dir => disk'.files[d] = disk.files[d]
          /\ lastCall'.input = "http_error" =>
                lastCall'.outcome = "HTTPStatusError" /\ disk' = disk
      ]_vars

\* C24: after any sequence of create_pod, wait_for_pod and destroy_pod calls
\* on a RunPodClient, whenever the base URL is set a pod id is set too and the
\* base URL is the one derived from that pod id.
C24_UrlOfHeldPod ==
    (kind = "runpod" /\ base_url.set) => (pod_id # 0 /\ base_url = PodUrl(pod_id))

(***************************************************************************)
(* Claims about the wizard (WizardSpec).                                   *)
(***************************************************************************)
Terminated(p) == \E i \in 1..Len(terminateCalls) : terminateCalls[i] = p

\* C6: when a pod was created and a later wait failed fatally (wait_for_pod
\* raised TimeoutError, or wait_for_server returned false), terminate has been
\* called for every created pod by the time the session has ended.
C6_PodTornDownOnWaitTimeout ==
    (wpc = "exited" /\ w.fatalWait \in {"pod", "server"}) =>
        \A p \in 1..created : Terminated(p)

\* C7: a validation error of the GenerationRequest constructor and a transport
\* error of submit, poll or download are both shown through show_error and
\* lead to the post-generation menu; neither ends the session.
C7_ErrorsReachMenu ==
    /\ w.raised \in {"ValidationError", "HTTPStatusError", "ConnectError"} =>
          /\ w.shown = "Error"
          /\ w.exit \in {"none", "return"}
    /\ (w.raised \in {"ValidationError", "HTTPStatusError", "ConnectError"} /\ w.exit = "none")
          => wpc \in {"menu", "cycle"}

\* C8: every client handle opened during run() is closed once run() has
\* exited, on every path.
C8_HandleClosedOnExit ==
    wpc = "exited" => http # "open"

\* C9: a single task is in flight at any time: at most one submitted task is
\* unfinished on the backend, over every sequence of cycles.
C9_SingleTaskInFlight ==
    Cardinality(w.inflight) <= 1

\* C25: every pod created by create_pod has been terminated by the time the
\* session has ended, however run() exits after a RunPod session: no created
\* pod id is left without a terminate call.
C25_NoPodLeftRunning ==
    (wpc = "exited" /\ w.mode = "runpod") => \A p \in 1..created : Terminated(p)

\* C26: a server subprocess the wizard launched is never left without a
\* decision: once run() has exited, whatever the way, the subprocess has been
\* shut down or the user has been asked and has declined to stop it.
C26_LaunchedServerDecided ==
    (wpc = "exited" /\ w.proc # "none") => (w.proc = "stopped" \/ w.stopAnswer = "no")

\* C27: whenever poll_with_progress returned a result, the cycle has, by the
\* time it reaches the menu, reported a failure through show_error or
\* downloaded the audios and saved the metadata.
C27_ReturnedResultHandled ==
    (wpc = "menu" /\ w.result # 0) => (w.shown # "none" \/ w.saved)

\* C28: the extension of every sample file downloaded in a cycle is the
\* audio_format of the GenerationRequest submitted in that cycle.
C28_ExtensionIsRequestFormat ==
    \A i \in 1..Len(w.downloads) : w.downloads[i].ext = w.sent.audio_format

\* C18: in a cycle, download_audio is called only after the poll loop returned
\* a succeeded result, never for a running or failed result nor after a poll
\* timeout; no two downloads go to the same file sample_<n>.<ext>; and once
\* the download loop is through, every AudioResult entry of the result has
\* been downloaded exactly once, entry n to sample_<n>.<ext>.
C18_EveryEntryDownloaded ==
    /\ w.downloads # <<>> => is_succeeded(w.result) /\ w.raised # "TimeoutError"
    /\ \A i, j \in 1..Len(w.downloads) :
          i # j => <<w.downloads[i].n, w.downloads[i].ext>>
                     # <<w.downloads[j].n, w.downloads[j].ext>>
    /\ w.saved =>
          \A n \in 1..Len(w.audios) :
              Cardinality({ i \in 1..Len(w.downloads) :
                              /\ w.downloads[i].n = n
                              /\ w.downloads[i].file = w.audios[n] }) = 1

\* C18 as amended: downloads happen only after a succeeded result, no two go
\* to the same file, an entry whose file is empty is never downloaded, and
\* once the download loop is through every entry with a non-empty file has
\* been downloaded exactly once, entry n to sample_<n>.<ext>.
C18_EntriesWithFileDownloaded ==
    /\ w.downloads # <<>> => is_succeeded(w.result) /\ w.raised # "TimeoutError"
    /\ \A i, j \in 1..Len(w.downloads) :
          i # j => <<w.downloads[i].n, w.downloads[i].ext>>
                     # <<w.downloads[j].n, w.downloads[j].ext>>
    /\ \A i \in 1..Len(w.downloads) :
          /\ w.downloads[i].file # ""
          /\ w.downloads[i].n \in 1..Len(w.audios)
          /\ w.downloads[i].file = w.audios[w.downloads[i].n]
    /\ w.saved =>
          \A n \in 1..Len(w.audios) :
              w.audios[n] # "" =>
                  Cardinality({ i \in 1..Len(w.downloads) : w.downloads[i].n = n }) = 1

\* the second of two entries has a file and was saved as sample_2
C18_Witness ==
    /\ w.saved /\ Len(w.audios) = 2
    /\ w.audios[1] = "" /\ w.audios[2] # ""
    /\ Len(w.downloads) = 1 /\ w.downloads[1].n = 2

\* C30: a cycle goes submit, polls of the submitted task id only, downloads,
\* save_metadata: metadata is saved, and success reported, only after every
\* download of the cycle completed without error, with the request that was
\* submitted and the terminal result the poll loop returned; if submit, poll
\* or a download raised, no metadata is saved and no success is reported.
C30_CycleOrder ==
    /\ w.polled # 0 => w.polled = w.task /\ w.task = w.submitted
    /\ (w.result # 0 \/ w.downloads # <<>>) => w.polled # 0
    /\ w.saved =>
          /\ w.raised = "none" /\ w.shown = "none"
          /\ w.meta.request = w.sent /\ w.sent.built
          /\ w.meta.result = w.result /\ is_succeeded(w.result)
          /\ w.meta.after = w.downloads
          /\ \A n \in 1..Len(w.audios) :
                HasFile(w.audios[n]) => \E i \in 1..Len(w.downloads) : w.downloads[i].n = n
    /\ w.raised # "none" => ~w.saved /\ w.meta = NoMeta

\* two files were downloaded before the metadata of the cycle was saved
C30_Witness ==
    /\ w.saved /\ Len(w.audios) = 2 /\ Len(w.downloads) = 2
    /\ w.meta.after = w.downloads /\ w.polled = w.task /\ w.task # 0

(***************************************************************************)
(* Claims about the VRAM estimate (VramSpec).                              *)
(***************************************************************************)
\* C19: estimate_vram_mb is non-decreasing in the duration for every fixed
\* batch size >= 1 and in the batch size for every fixed duration >= 0, and
\* for every positive duration doubling the batch size makes the working
\* memory (the estimate minus the 4000 MB base) less than twice as large.
C19_MonotoneSublinear ==
    est.pc = "done" =>
        /\ (est.b1 = est.b2 /\ est.d1 <= est.d2) => est.e1 <= est.e2
        /\ (est.d1 = est.d2 /\ est.b1 <= est.b2) => est.e1 <= est.e2
        /\ (est.d1 = est.d2 /\ est.d1 > 0 /\ est.b2 = 2 * est.b1) =>
               est.e2 - 4000 < 2 * (est.e1 - 4000)

\* C19 as amended: the same, with the doubling bound for every duration of at
\* least one second.
C19_MonotoneSublinearFromOneSecond ==
    est.pc = "done" =>
        /\ (est.b1 = est.b2 /\ est.d1 <= est.d2) => est.e1 <= est.e2
        /\ (est.d1 = est.d2 /\ est.b1 <= est.b2) => est.e1 <= est.e2
        /\ (est.d1 = est.d2 /\ est.d1 >= 100 /\ est.b2 = 2 * est.b1) =>
               est.e2 - 4000 < 2 * (est.e1 - 4000)

\* 120 s: batch 1 needs 3000 MB of working memory, batch 2 needs 5100
C19_Witness ==
    /\ est.pc = "done" /\ est.d1 = 12000 /\ est.d2 = 12000
    /\ est.b1 = 1 /\ est.b2 = 2
    /\ est.e1 = 7000 /\ est.e2 = 9100

(***************************************************************************)
(* Claims about the configuration.                                         *)
(***************************************************************************)
\* C20: each secret load_config returns is the environment variable if it was
\* set before loading, otherwise the value the .env file gives that variable,
\* otherwise the value of the selected config file, otherwise the built-in
\* default; and loading .env changes no environment variable that was set.
C20_SecretPrecedence ==
    cfg.pc = "done" =>
        LET lines == cfg.dotenv.lines
            At(v) == { i \in 1..Len(lines) : lines[i].key = v }
            First(v) == CHOOSE i \in At(v) : \A j \in At(v) : i <= j
            toml == SelectedToml(cfg.path, cfg.files)
            Chosen(f) ==
                IF cfg.before[EnvVarOf(f)] # Unset THEN cfg.before[EnvVarOf(f)]
                ELSE IF cfg.dotenv.exists /\ At(EnvVarOf(f)) # {}
                     THEN Unquote(lines[First(EnvVarOf(f))].raw)
                ELSE IF f \in toml.sets THEN toml.text
                ELSE DefaultSecret(f)
        IN  /\ \A f \in SecretFields : cfg.result[f] = Chosen(f)
            /\ \A v \in SecretVars :
                  cfg.before[v] # Unset => cfg.environ[v] = cfg.before[v]

\* load_config ran with ACESTEP_API_KEY set to the empty string, a .env line
\* for it and a config file that sets server.api_key: the file's value came back
C20_EmptyVariableFallsToFile ==
    /\ cfg.pc = "done"
    /\ cfg.before["ACESTEP_API_KEY"] = ""
    /\ cfg.dotenv.exists /\ Len(cfg.dotenv.lines) = 1
    /\ cfg.dotenv.lines[1] = [key |-> "ACESTEP_API_KEY", raw |-> Raw(FALSE, "rp-from-dotenv")]
    /\ cfg.path = "given" /\ cfg.files.explicit = Toml({"server.api_key"}, "toml-key")
    /\ cfg.result["server.api_key"] = "toml-key"

(***************************************************************************)
(* Claims about the server launcher (LauncherSpec).                        *)
(***************************************************************************)
\* C21: wait_until_ready returns true as soon as a probe succeeds, without a
\* sleep when it is the first and with one 2-second sleep after each failed
\* probe before it; it returns false, and raises nothing, once the deadline is
\* reached with no successful probe; a non-200 status and a connection failure
\* of the probe both count as not ready.
C21_WaitUntilReady ==
    ln.pc \notin {"off", "idle"} =>
        LET n == Len(ln.probes) IN
        /\ ln.pc # "raised"
        /\ \A i \in 1..n : ln.probes[i] = "200" => (i = n /\ ln.pc = "True")
        /\ ln.pc = "True" => n > 0 /\ ln.probes[n] = "200" /\ ln.sleeps = n - 1
        /\ ln.pc = "False" => ln.now >= ln.deadline /\ ln.sleeps = n
        /\ ln.pc \in {"check", "probe"} => ln.sleeps = n
        /\ ln.pc = "probe" => ln.now < ln.deadline
        /\ ln.now - ln.entered >= 2 * ln.sleeps

\* C22: shutdown without a managed process sends nothing; otherwise it calls
\* terminate first and kill only if the 10-second wait timed out; in every
\* case no process is managed afterwards (is_launched is false), and a
\* shutdown directly after a shutdown sends no signal.
C22_ShutdownOnce ==
    [][ (ln'.calls = ln.calls + 1 /\ ln'.lastOp = "shutdown") =>
          /\ IF ln.process = "none"
             THEN ln'.lastSent = <<>>
             ELSE ln'.lastSent = (IF ln'.waitTimedOut THEN <<"terminate", "kill">>
                                                      ELSE <<"terminate">>)
          /\ ln'.signals = ln.signals \o ln'.lastSent
          /\ ln'.process = "none" /\ ~is_launched(ln')
          /\ ln.lastOp = "shutdown" => ln'.lastSent = <<>>
      ]_vars

\* a shutdown that had nothing to do, after one that had to kill the subprocess
C22_Witness ==
    /\ ln.lastOp = "shutdown" /\ ln.lastSent = <<>> /\ ln.process = "none"
    /\ ln.launches = 1 /\ ln.signals = <<"terminate", "kill">>

====
